---- MODULE Spec2Model ----
(***************************************************************************)
(* The analysis pipeline of the roadmap backend: JavaMavenAnalyzer.run     *)
(* (directory walk, metamodel writes, call resolver), the repository       *)
(* pipeline of routers/jobs.py (Phase 0 cleanup, module analysis, the      *)
(* Microservice write) and the Spring JMS enricher, all acting on one      *)
(* property graph.  A name is a sequence of identifiers: "a.b.C" is        *)
(* <<"a","b","C">>, so joining and splitting names is computed, not        *)
(* assumed.  One run_cypher_write call is one atomic step.  Requests are   *)
(* served one at a time and the module tasks of Phase 1 run one after the  *)
(* other in any order: the interleaving of writes of concurrent runs is    *)
(* not part of the specification Spec.                                     *)
(*                                                                         *)
(* Several specifications share the variables.  Spec: the graph and the    *)
(* runs that write it.  SpecLoop and SpecLoopFair: coroutines and worker   *)
(* threads of the event loop, job statuses, the calls of Phase 2.  The     *)
(* others apply one function to drawn inputs: SpecPaths (_join_paths),     *)
(* SpecTarget (receiver resolution), SpecEndpoint (_resolve_endpoint),     *)
(* SpecAnnotations (_resolve_annotation_fqns), SpecOrder (the resolver on  *)
(* every order of one module) and SpecOwnerFair (_find_method_owner, one   *)
(* loop iteration per step).  Each leaves the variables of the others at   *)
(* their initial value.                                                    *)
(***************************************************************************)
EXTENDS Integers, Sequences, FiniteSets, TLC

VARIABLES graph,     \* the Neo4j property graph: nodes and a bag of edges
          an,        \* the JavaMavenAnalyzer.run in progress (locals, position)
          pipe,      \* the _run_repo_pipeline in progress (locals, position)
          budget,    \* store failures the environment may still inject
          hist,      \* history: graph at run start, graph after the last run
          sched,     \* the event loop: coroutines, worker threads, job statuses
          call       \* one application of a pure function: arguments, result

vars == <<graph, an, pipe, budget, hist, sched, call>>

\* the value of a variable a specification does not use
Unused == <<>>

-----------------------------------------------------------------------------
(* Bounds *)

\* environment events per behaviour: analysis requests (single-module jobs
\* and repository pipelines) and failing store writes together
MaxEvents == 3

MaxFailures == 2

-----------------------------------------------------------------------------
(* Names *)

NoName == <<>>
NoReceiver == "<none>"
NoLiteral == "<dynamic>"

Last(s) == s[Len(s)]

\* f"{a}.{b}" for a simple name b
Dot(a, b) == Append(a, b)

\* imp.rsplit(".", 1)[-1]
SimpleOf(fqn) == Last(fqn)

JmsListenerFqn == <<"org", "springframework", "jms", "annotation", "JmsListener">>
JmsTemplateFqn == <<"org", "springframework", "jms", "core", "JmsTemplate">>
JmsTemplatePkg == <<"org", "springframework", "jms", "core">>
SendMethods == {"send", "convertAndSend", "sendAndReceive"}

-----------------------------------------------------------------------------
(* The property graph *)

NoProps == [annotations |-> <<>>, imports |-> <<>>, star_imports |-> <<>>,
            supertypes |-> <<>>, source |-> <<>>, detected_technologies |-> <<>>]

EmptyGraph == [n |-> {}, e |-> <<>>]

ArchLabels == {"RESTInterface", "RESTEndpoint", "FeignClient", "FeignEndpoint",
               "HTTPClient", "ArchRepository", "JMSDestination", "JMSListener",
               "JMSProducer", "ScheduledTask", "Microservice"}

Ids(g) == {x.id : x \in g.n}

FreshId(g) ==
    CHOOSE i \in 1..(Cardinality(g.n) + 1) :
        /\ i \notin Ids(g)
        /\ \A j \in 1..(i - 1) : j \in Ids(g)

\* MATCH (x:label {key})
Match(g, label, key) == {x.id : x \in {y \in g.n : y.label = label /\ y.key = key}}

MatchLabel(g, label) == {x.id : x \in {y \in g.n : y.label = label}}

NodeOf(g, i) == CHOOSE x \in g.n : x.id = i

EdgeSet(g) == DOMAIN g.e

\* targets of edges of type t leaving a node of S
Out(g, S, t) == {e[3] : e \in {f \in EdgeSet(g) : f[1] \in S /\ f[2] = t}}

\* sources of edges of type t entering a node of S
In(g, S, t) == {e[1] : e \in {f \in EdgeSet(g) : f[3] \in S /\ f[2] = t}}

\* CREATE (x:label {key, props})
CreateNode(g, label, key, props) ==
    [g EXCEPT !.n = @ \cup {[id |-> FreshId(g), label |-> label,
                             key |-> key, props |-> props]}]

\* MERGE (x:label {key}): the node is matched when it exists, created otherwise
MergeNode(g, label, key) ==
    IF Match(g, label, key) # {} THEN g
    ELSE CreateNode(g, label, key, NoProps)

\* SET x.props on every node of S
SetProps(g, S, props) ==
    [g EXCEPT !.n = {IF x.id \in S THEN [x EXCEPT !.props = props] ELSE x : x \in @}]

\* CREATE (a)-[:t]->(b): always a new relationship
CreateEdge(g, a, t, b) ==
    LET e == <<a, t, b>>
    IN  [g EXCEPT !.e = IF e \in DOMAIN @ THEN [@ EXCEPT ![e] = @ + 1]
                        ELSE @ @@ (e :> 1)]

\* MERGE (a)-[:t]->(b): a relationship only when none exists
MergeEdge(g, a, t, b) ==
    IF <<a, t, b>> \in DOMAIN g.e THEN g ELSE CreateEdge(g, a, t, b)

RECURSIVE MergeEdges(_, _, _, _)
\* MERGE (a)-[:t]->(b) for every row (a, b) of A \X B
MergeEdges(g, A, t, B) ==
    IF A = {} \/ B = {} THEN g
    ELSE LET a == CHOOSE x \in A : \A y \in A : x <= y
             RECURSIVE Row(_, _)
             Row(h, R) == IF R = {} THEN h
                          ELSE LET b == CHOOSE x \in R : \A y \in R : x <= y
                               IN  Row(MergeEdge(h, a, t, b), R \ {b})
         IN  MergeEdges(Row(g, B), A \ {a}, t, B)

RECURSIVE CreateEdges(_, _, _, _)
\* CREATE (a)-[:t]->(b) for every row (a, b) of A \X B
CreateEdges(g, A, t, B) ==
    IF A = {} \/ B = {} THEN g
    ELSE LET a == CHOOSE x \in A : \A y \in A : x <= y
             RECURSIVE Row(_, _)
             Row(h, R) == IF R = {} THEN h
                          ELSE LET b == CHOOSE x \in R : \A y \in R : x <= y
                               IN  Row(CreateEdge(h, a, t, b), R \ {b})
         IN  CreateEdges(Row(g, B), A \ {a}, t, B)

RECURSIVE CreateChildPerRow(_, _, _, _, _, _, _)
\* MATCH (r) ... CREATE (x:label {...}) CREATE (r)-[:t]->(x)  (outgoing)
\*                                   or CREATE (x)-[:t]->(r)  (not outgoing)
\* one new node per matched row r of Rows
CreateChildPerRow(g, Rows, label, key, props, t, outgoing) ==
    IF Rows = {} THEN g
    ELSE LET r == CHOOSE x \in Rows : \A y \in Rows : x <= y
             i == FreshId(g)
             g1 == CreateNode(g, label, key, props)
             g2 == IF outgoing THEN CreateEdge(g1, r, t, i)
                   ELSE CreateEdge(g1, i, t, r)
         IN  CreateChildPerRow(g2, Rows \ {r}, label, key, props, t, outgoing)

\* DETACH DELETE every node of S
DetachDelete(g, S) ==
    [n |-> {x \in g.n : x.id \notin S},
     e |-> [e \in {f \in DOMAIN g.e : f[1] \notin S /\ f[3] \notin S} |-> g.e[e]]]

RECURSIVE Reach(_, _)
\* (m)-[*]->(n): every node reachable from S by outgoing relationships
Reach(g, S) ==
    LET T == S \cup {e[3] : e \in {f \in EdgeSet(g) : f[1] \in S}}
    IN  IF T = S THEN S ELSE Reach(g, T)

Descendants(g, S) == {e[3] : e \in {f \in EdgeSet(g) : f[1] \in Reach(g, S)}}

\* nodes with no relationship at all: NOT EXISTS { MATCH (a)-[]-() }
Isolated(g, S) == {i \in S : \A e \in EdgeSet(g) : e[1] # i /\ e[3] # i}

-----------------------------------------------------------------------------
(* The source tree under analysis: what the tree-sitter parse of each file   *)
(* yields.  Module "ma" and module "mb" both declare types in package p;     *)
(* "mb" also holds a file without a package declaration; Bi overloads foo.   *)

Inv(n, r) == [name |-> n, receiver |-> r]

Meth(n, invs, anns) == [name |-> n, invocations |-> invs, annotations |-> anns]

Type(n, supers, flds, meths, src) ==
    [name |-> n, parent |-> NoName, supertypes |-> supers, fields |-> flds,
     methods |-> meths, annotations |-> <<>>, source |-> src]

File(pkg, imps, types) ==
    [package |-> pkg, imports |-> imps, star_imports |-> <<>>,
     static_method_imports |-> <<>>, types |-> types]

FileA1 ==
    File(<<"p">>, <<>>,
         << Type("X", <<"Ext">>, <<>>, <<>>, <<>>),
            Type("Bi", <<>>, <<>>,
                 <<Meth("foo", <<>>, <<>>), Meth("foo", <<>>, <<>>)>>, <<>>),
            Type("A", <<"X", "Bi">>, <<>>, <<>>, <<>>),
            Type("Sub", <<"X">>, <<>>, <<>>, <<>>) >>)

FileA2 ==
    File(<<"p">>, <<>>,
         << Type("Caller", <<>>, << <<"x", "X">>, <<"a", "A">>, <<"s", "Sub">> >>,
                 << Meth("go", << Inv("helper", NoReceiver), Inv("helper", "this"),
                                  Inv("go", NoReceiver), Inv("foo", "a"),
                                  Inv("foo", "x") >>, <<>>),
                    Meth("helper", << Inv("foo", "x"), Inv("foo", "a"),
                                      Inv("foo", "s") >>, <<>>) >>,
                 <<>>) >>)

FileB1 ==
    File(<<"p">>, <<JmsListenerFqn, JmsTemplateFqn, <<"p", "Caller">> >>,
         << Type("Other", <<>>, <<>>,
                 << Meth("onMsg", << Inv("go", "Caller") >>,
                         << [name |-> "JmsListener",
                             arguments |-> << <<"destination", "q1">> >>] >>) >>,
                 << <<"convertAndSend", "q1">> >>) >>)

FileB2 ==
    File(NoName, <<>>,
         << Type("Loose", <<>>, <<>>,
                 << Meth("lm", << Inv("lm2", NoReceiver) >>, <<>>) >>, <<>>) >>)

Modules == {"ma", "mb"}

RepoPath == <<"repo">>
RepoName == <<"roadmap">>

\* os.walk of the module's source roots, file names sorted
SourceFiles(m) == IF m = "ma" THEN <<FileA1, FileA2>> ELSE <<FileB1, FileB2>>

\* module.technologies of the configuration
ConfiguredTechnologies(m) == IF m = "mb" THEN <<"spring-jms">> ELSE <<>>

-----------------------------------------------------------------------------
(* Extractor *)

\* dict lookup in a list of (key, value) pairs built by successive assignment:
\* the last pair with the key wins; NoName when the key is absent
RECURSIVE Lookup(_, _)
Lookup(pairs, k) ==
    IF pairs = <<>> THEN NoName
    ELSE IF Last(pairs)[1] = k THEN Last(pairs)[2]
    ELSE Lookup(SubSeq(pairs, 1, Len(pairs) - 1), k)

HasKey(pairs, k) == \E i \in 1..Len(pairs) : pairs[i][1] = k

\* import_map[simple] = imp for imp in imports
BuildImportMap(imports) == [i \in 1..Len(imports) |-> <<SimpleOf(imports[i]), imports[i]>>]

FullName(package, parent, simple) ==
    IF parent # NoName THEN Dot(parent, simple)
    ELSE IF package # NoName THEN Dot(package, simple)
    ELSE <<simple>>

\* the key under which _build_import_map keeps the star imports
StarImportsKey == "__star_imports__"

\* a list of packages as a dict value: the empty list is as false as None, a
\* list with elements is a value that is no dotted name
ListValue(packages) ==
    IF packages = <<>> THEN NoName
    ELSE <<"[">> \o packages[1] \o <<"]">>

\* _build_import_map: the explicit imports by simple name, then the star
\* imports under their key
AnnotationImportMap(imports, star_imports) ==
    Append(BuildImportMap(imports), <<StarImportsKey, ListValue(star_imports)>>)

ResolveAnnotationFqn(ann, imports, star_imports, package) ==
    LET byImport == Lookup(AnnotationImportMap(imports, star_imports), ann.name)
        byStar == IF byImport = NoName /\ star_imports # <<>>
                  THEN Dot(star_imports[1], ann.name) ELSE byImport
        fqn == IF byStar = NoName /\ package # NoName
               THEN Dot(package, ann.name) ELSE byStar
    IN  [name |-> IF fqn # NoName THEN fqn ELSE <<ann.name>>,
         arguments |-> ann.arguments]

ResolveAnnotationFqns(anns, imports, star_imports, package) ==
    [i \in 1..Len(anns) |->
        ResolveAnnotationFqn(anns[i], imports, star_imports, package)]

\* the cls_info dict built for one type declaration
ExtractType(f, t) ==
    [name |-> t.name,
     full_name |-> FullName(f.package, t.parent, t.name),
     package |-> f.package,
     imports |-> f.imports,
     star_imports |-> f.star_imports,
     static_method_imports |-> f.static_method_imports,
     methods |-> [i \in 1..Len(t.methods) |->
                    [t.methods[i] EXCEPT !.annotations =
                        ResolveAnnotationFqns(@, f.imports, f.star_imports, f.package)]],
     source_code |-> t.source,
     fields |-> t.fields,
     supertypes |-> t.supertypes,
     annotations |-> ResolveAnnotationFqns(t.annotations, f.imports,
                                           f.star_imports, f.package)]

\* _parse_java_file: {"package": ..., "classes": [...]}
ParseJavaFile(f) ==
    [package |-> f.package,
     classes |-> [i \in 1..Len(f.types) |-> ExtractType(f, f.types[i])]]

\* _walk_java_files: a source root that is no directory is skipped
WalkJavaFiles(m, pathOk) == IF pathOk THEN SourceFiles(m) ELSE <<>>

-----------------------------------------------------------------------------
(* Graph writes of JavaMavenAnalyzer *)

ModuleKey(m) == <<m>>

\* (:Java:Module {name})-[:CONTAINS_PACKAGE]->(:Java:Package)
PackagesOf(g, mods) ==
    Out(g, mods, "CONTAINS_PACKAGE") \cap MatchLabel(g, "Package")

\* ...-[:CONTAINS_CLASS]->(c:Java:Class)
ClassesOf(g, mods) ==
    Out(g, PackagesOf(g, mods), "CONTAINS_CLASS") \cap MatchLabel(g, "Class")

\* ...-[:HAS_METHOD]->(meth:Java:Method)
MethodsOf(g, mods) ==
    Out(g, ClassesOf(g, mods), "HAS_METHOD") \cap MatchLabel(g, "Method")

ArchNodes(g) == {x.id : x \in {y \in g.n : y.label \in ArchLabels}}

\* OPTIONAL MATCH (a:Arch)-[:IMPLEMENTED_BY]->(x) for x in S
ArchImplementedBy(g, S) == In(g, S, "IMPLEMENTED_BY") \cap ArchNodes(g)

\* the four statements of _clear_module_data, in order
ClearModuleData(g, m, step) ==
    LET mods == Match(g, "Module", ModuleKey(m))
    IN  CASE step = 1 -> DetachDelete(g, ArchImplementedBy(g, ClassesOf(g, mods)))
          [] step = 2 -> DetachDelete(g, ArchImplementedBy(g, MethodsOf(g, mods)))
          [] step = 3 -> DetachDelete(g, Isolated(g, ArchNodes(g)))
          [] step = 4 -> DetachDelete(g, mods \cup Descendants(g, mods))

CreateModuleNode(g, m) ==
    LET g1 == MergeNode(g, "Repository", RepoPath)
        g2 == MergeNode(g1, "Module", ModuleKey(m))
    IN  MergeEdges(g2, Match(g2, "Repository", RepoPath), "CONTAINS_MODULE",
                   Match(g2, "Module", ModuleKey(m)))

CreatePackageNode(g, m, pkg) ==
    LET mods == Match(g, "Module", ModuleKey(m))
    IN  IF mods = {} THEN g
        ELSE LET g1 == MergeNode(g, "Package", pkg)
             IN  MergeEdges(g1, mods, "CONTAINS_PACKAGE", Match(g1, "Package", pkg))

ClassProps(cls) ==
    [annotations |-> cls.annotations, imports |-> cls.imports,
     star_imports |-> cls.star_imports, supertypes |-> cls.supertypes,
     source |-> cls.source_code, detected_technologies |-> <<>>]

CreateClassNode(g, cls) ==
    LET pkgs == Match(g, "Package", cls.package)
    IN  IF pkgs = {} THEN g
        ELSE LET g1 == MergeNode(g, "Class", cls.full_name)
                 cs == Match(g1, "Class", cls.full_name)
                 g2 == SetProps(g1, cs, ClassProps(cls))
             IN  MergeEdges(g2, pkgs, "CONTAINS_CLASS", cs)

MethodProps(method) == [NoProps EXCEPT !.annotations = method.annotations]

CreateMethodNode(g, class_full_name, method) ==
    CreateChildPerRow(g, Match(g, "Class", class_full_name), "Method",
                      Dot(class_full_name, method.name), MethodProps(method),
                      "HAS_METHOD", TRUE)

CreateSyntheticMethodDetached(g, target_class, called_name) ==
    IF Match(g, "Class", target_class) = {} THEN g
    ELSE CreateNode(g, "Method", Dot(target_class, called_name), NoProps)

\* the synthetic method node of _create_calls_relationships
CreateSyntheticMethod(g, target_class, called_name) ==
    CreateChildPerRow(g, Match(g, "Class", target_class), "Method",
                      Dot(target_class, called_name), NoProps,
                      "HAS_METHOD", TRUE)

WriteCallsEdgeMergingEndpoints(g, caller, callee) ==
    LET g1 == MergeNode(g, "Method", caller)
        g2 == MergeNode(g1, "Method", callee)
    IN  MergeEdges(g2, Match(g2, "Method", caller), "CALLS",
                   Match(g2, "Method", callee))

\* MATCH (a:Method {caller}) MATCH (b:Method {callee}) MERGE (a)-[:CALLS]->(b)
WriteCallsEdge(g, caller, callee) ==
    MergeEdges(g, Match(g, "Method", caller), "CALLS", Match(g, "Method", callee))

-----------------------------------------------------------------------------
(* Symbol resolver: lookup tables and resolution *)

\* class_methods: full name -> set of method names (a later class of the
\* same full name replaces an earlier one)
RECURSIVE MethodNamesOf(_, _)
MethodNamesOf(all, fn) ==
    IF all = <<>> THEN {}
    ELSE IF Last(all).full_name = fn
         THEN {Last(all).methods[i].name : i \in 1..Len(Last(all).methods)}
         ELSE MethodNamesOf(SubSeq(all, 1, Len(all) - 1), fn)

BuildClassMethods(all) ==
    [fn \in {all[i].full_name : i \in 1..Len(all)} |-> MethodNamesOf(all, fn)]

\* class_by_simple[simple]: the full names of the classes with that name
RECURSIVE ClassBySimple(_, _)
ClassBySimple(all, simple) ==
    IF all = <<>> THEN <<>>
    ELSE LET rest == ClassBySimple(SubSeq(all, 1, Len(all) - 1), simple)
         IN  IF Last(all).name = simple THEN Append(rest, Last(all).full_name)
             ELSE rest

\* resolution of a simple type name: the import map first, then the
\* simple-name index when it has exactly one candidate
ResolveSimple(all, imports, simple) ==
    LET import_map == BuildImportMap(imports)
        candidates == ClassBySimple(all, simple)
    IN  IF HasKey(import_map, simple) THEN Lookup(import_map, simple)
        ELSE IF Len(candidates) = 1 THEN candidates[1]
        ELSE NoName

RECURSIVE ResolveAll(_, _, _)
ResolveAll(all, imports, names) ==
    IF names = <<>> THEN <<>>
    ELSE LET r == ResolveSimple(all, imports, names[1])
             rest == ResolveAll(all, imports, Tail(names))
         IN  IF r = NoName THEN rest ELSE <<r>> \o rest

\* class_hierarchy[full_name]: set only for a class with resolved parents
RECURSIVE ClassHierarchy(_, _, _)
ClassHierarchy(all, k, fn) ==
    IF k = 0 THEN <<>>
    ELSE LET parents == ResolveAll(all, all[k].imports, all[k].supertypes)
         IN  IF all[k].full_name = fn /\ parents # <<>> THEN parents
             ELSE ClassHierarchy(all, k - 1, fn)

SeqToSet(s) == {s[i] : i \in 1..Len(s)}

RECURSIVE OwnerSearch(_, _, _, _, _)
OwnerSearch(called_name, queue, visited, class_methods, all) ==
    IF queue = <<>> THEN NoName
    ELSE LET current == Head(queue)
         IN  IF current \in visited
             THEN OwnerSearch(called_name, Tail(queue), visited, class_methods, all)
             ELSE IF current \in DOMAIN class_methods
                     /\ called_name \in class_methods[current]
             THEN current
             ELSE OwnerSearch(called_name,
                              Tail(queue) \o ClassHierarchy(all, Len(all), current),
                              visited \cup {current}, class_methods, all)

FindMethodOwner(called_name, target_class, class_methods, all) ==
    OwnerSearch(called_name, <<target_class>>, {}, class_methods, all)

\* field_type_map: field name -> resolved full class name
RECURSIVE FieldTypeMap(_, _, _)
FieldTypeMap(all, cls, k) ==
    IF k = 0 THEN <<>>
    ELSE LET rest == FieldTypeMap(all, cls, k - 1)
             r == ResolveSimple(all, cls.imports, cls.fields[k][2])
         IN  IF r = NoName THEN rest ELSE Append(rest, <<cls.fields[k][1], r>>)

\* the target class of one invocation inside cls; NoName when unresolved
TargetClass(all, cls, inv) ==
    LET import_map == BuildImportMap(cls.imports)
        field_type_map == FieldTypeMap(all, cls, Len(cls.fields))
        candidates == ClassBySimple(all, inv.receiver)
    IN  IF inv.receiver = NoReceiver \/ inv.receiver = "this"
        THEN IF HasKey(cls.static_method_imports, inv.name)
             THEN Lookup(cls.static_method_imports, inv.name)
             ELSE cls.full_name
        ELSE IF HasKey(import_map, inv.receiver) THEN Lookup(import_map, inv.receiver)
        ELSE IF candidates # <<>>
             THEN IF Len(candidates) = 1 THEN candidates[1] ELSE NoName
        ELSE IF HasKey(field_type_map, inv.receiver)
             THEN Lookup(field_type_map, inv.receiver)
        ELSE NoName

-----------------------------------------------------------------------------
(* Symbol resolver: the two halves of the loop body *)

\* lines 800-835: owner lookup and, when no owner is found on a known
\* target class, the synthetic method.  writes: whether a store write is issued.
SynthesizeStepAnyTarget(g, class_methods, synthetic_created, all, target_class, called_name) ==
    LET found == FindMethodOwner(called_name, target_class, class_methods, all)
        syn_full == Dot(target_class, called_name)
        fallback == found = NoName
        fresh == fallback /\ syn_full \notin synthetic_created
    IN  [owner |-> IF fallback THEN target_class ELSE found,
         writes |-> fresh,
         g |-> IF fresh THEN CreateSyntheticMethod(g, target_class, called_name)
               ELSE g,
         synthetic_created |-> IF fresh THEN synthetic_created \cup {syn_full}
                               ELSE synthetic_created,
         class_methods |-> IF fresh /\ target_class \in DOMAIN class_methods
                           THEN [class_methods EXCEPT ![target_class] =
                                    @ \cup {called_name}]
                           ELSE class_methods]

SynthesizeStep(g, class_methods, synthetic_created, all, target_class, called_name) ==
    LET found == FindMethodOwner(called_name, target_class, class_methods, all)
        syn_full == Dot(target_class, called_name)
        fallback == found = NoName /\ target_class \in DOMAIN class_methods
        fresh == fallback /\ syn_full \notin synthetic_created
    IN  [owner |-> IF fallback THEN target_class ELSE found,
         writes |-> fresh,
         g |-> IF fresh THEN CreateSyntheticMethod(g, target_class, called_name)
               ELSE g,
         synthetic_created |-> IF fresh THEN synthetic_created \cup {syn_full}
                               ELSE synthetic_created,
         class_methods |-> IF fresh
                           THEN [class_methods EXCEPT ![target_class] =
                                    @ \cup {called_name}]
                           ELSE class_methods]

\* lines 836-848: the CALLS relationship for a resolved owner
CallsStepNoSelfCheck(g, seen, caller, owner, called_name) ==
    LET callee == Dot(owner, called_name)
        fresh == owner # NoName /\ <<caller, callee>> \notin seen
    IN  [writes |-> fresh,
         g |-> IF fresh THEN WriteCallsEdge(g, caller, callee) ELSE g,
         seen |-> IF fresh THEN seen \cup {<<caller, callee>>} ELSE seen,
         n |-> IF fresh THEN 1 ELSE 0]

CallsStepNoDedup(g, seen, caller, owner, called_name) ==
    LET callee == Dot(owner, called_name)
        fresh == owner # NoName /\ callee # caller
    IN  [writes |-> fresh,
         g |-> IF fresh
               THEN CreateEdges(g, Match(g, "Method", caller), "CALLS",
                                Match(g, "Method", callee))
               ELSE g,
         seen |-> IF fresh THEN seen \cup {<<caller, callee>>} ELSE seen,
         n |-> IF fresh THEN 1 ELSE 0]

CallsStep(g, seen, caller, owner, called_name) ==
    LET callee == Dot(owner, called_name)
        fresh == owner # NoName /\ callee # caller /\ <<caller, callee>> \notin seen
    IN  [writes |-> fresh,
         g |-> IF fresh THEN WriteCallsEdge(g, caller, callee) ELSE g,
         seen |-> IF fresh THEN seen \cup {<<caller, callee>>} ELSE seen,
         n |-> IF fresh THEN 1 ELSE 0]

\* the (class, method, invocation) triples in loop order
RECURSIVE InvocationsFrom(_, _, _, _)
InvocationsFrom(all, ci, mi, ii) ==
    IF ci > Len(all) THEN <<>>
    ELSE IF mi > Len(all[ci].methods) THEN InvocationsFrom(all, ci + 1, 1, 1)
    ELSE IF ii > Len(all[ci].methods[mi].invocations)
         THEN InvocationsFrom(all, ci, mi + 1, 1)
    ELSE << <<ci, mi, ii>> >> \o InvocationsFrom(all, ci, mi, ii + 1)

-----------------------------------------------------------------------------
(* JavaMavenAnalyzer.run as a state machine *)

NoStats == [packages |-> 0, classes |-> 0, methods |-> 0, parse_errors |-> 0]

NoPending == [caller |-> NoName, owner |-> NoName, target |-> NoName, called |-> ""]

IdleAnalyzer ==
    [pc |-> "idle", mode |-> "job", module |-> "", pathOk |-> TRUE, step |-> 0,
     files |-> <<>>, cur |-> <<>>, todo |-> <<>>,
     all_classes |-> <<>>, packages_seen |-> {}, stats |-> NoStats,
     calls |-> <<>>, class_methods |-> <<>>, seen |-> {},
     synthetic_created |-> {}, count |-> 0, pending |-> NoPending,
     raised |-> {}, failed |-> {}, result |-> "none", clean |-> TRUE]

\* the writes of one parsed file, in order: the package (when new), then
\* each class followed by its methods
RECURSIVE ClassOps(_, _)
ClassOps(classes, ci) ==
    IF ci > Len(classes) THEN <<>>
    ELSE << <<"class", ci, 0>> >>
         \o [mi \in 1..Len(classes[ci].methods) |-> <<"method", ci, mi>>]
         \o ClassOps(classes, ci + 1)

FileOps(result, packages_seen) ==
    (IF result.package # NoName /\ result.package \notin packages_seen
     THEN << <<"package", 0, 0>> >> ELSE <<>>)
    \o ClassOps(result.classes, 1)

\* run() entered: start_job (mode "job") or a Phase 1 task (mode "pipeline")
BeginRun(m, ok, mode) ==
    [IdleAnalyzer EXCEPT !.pc = "clear", !.mode = mode, !.module = m,
                         !.pathOk = ok, !.step = 1]

ClearStep ==
    /\ an.pc = "clear"
    /\ graph' = ClearModuleData(graph, an.module, an.step)
    /\ an' = IF an.step < 4 THEN [an EXCEPT !.step = @ + 1]
             ELSE [an EXCEPT !.pc = "module", !.step = 0]
    /\ UNCHANGED <<sched, call, pipe, budget, hist>>

ModuleStep ==
    /\ an.pc = "module"
    /\ graph' = CreateModuleNode(graph, an.module)
    /\ an' = [an EXCEPT !.pc = "walk"]
    /\ UNCHANGED <<sched, call, pipe, budget, hist>>

WalkStep ==
    /\ an.pc = "walk"
    /\ an' = [an EXCEPT !.pc = "files",
                        !.files = WalkJavaFiles(an.module, an.pathOk)]
    /\ UNCHANGED <<sched, call, graph, pipe, budget, hist>>

ParseFile ==
    /\ an.pc = "files" /\ an.todo = <<>> /\ an.files # <<>>
    /\ LET result == ParseJavaFile(Head(an.files))
       IN  an' = [an EXCEPT !.files = Tail(@),
                            !.cur = result,
                            !.todo = IF result.classes = <<>> THEN <<>>
                                     ELSE FileOps(result, an.packages_seen)]
    /\ UNCHANGED <<sched, call, graph, pipe, budget, hist>>

\* _parse_java_file raises (unreadable file, extraction error): the handler
\* of the per-file try counts a parse error and the loop goes to the next file
ParseRaises ==
    /\ an.pc = "files" /\ an.todo = <<>> /\ an.files # <<>>
    /\ hist.events < MaxEvents
    /\ hist' = [hist EXCEPT !.events = @ + 1]
    /\ an' = [an EXCEPT !.files = Tail(@),
                        !.raised = @ \cup {Head(an.files)},
                        !.stats.parse_errors = @ + 1,
                        !.clean = FALSE]
    /\ UNCHANGED <<sched, call, graph, pipe, budget>>

FileWrite ==
    /\ an.pc = "files" /\ an.todo # <<>>
    /\ LET op == Head(an.todo)
           cls == an.cur.classes[op[2]]
       IN  CASE op[1] = "package" ->
                 /\ graph' = CreatePackageNode(graph, an.module, an.cur.package)
                 /\ an' = [an EXCEPT !.todo = Tail(@),
                                     !.packages_seen = @ \cup {an.cur.package},
                                     !.stats.packages = @ + 1]
             [] op[1] = "class" ->
                 /\ graph' = CreateClassNode(graph, cls)
                 /\ an' = [an EXCEPT !.todo = Tail(@),
                                     !.all_classes = Append(@, cls),
                                     !.stats.classes = @ + 1]
             [] op[1] = "method" ->
                 /\ graph' = CreateMethodNode(graph, cls.full_name,
                                              cls.methods[op[3]])
                 /\ an' = [an EXCEPT !.todo = Tail(@),
                                     !.stats.methods = @ + 1]
    /\ UNCHANGED <<sched, call, pipe, budget, hist>>

BeginResolve ==
    /\ an.pc = "files" /\ an.todo = <<>> /\ an.files = <<>>
    /\ an' = [an EXCEPT !.pc = "resolve", !.cur = <<>>,
                        !.class_methods = BuildClassMethods(an.all_classes),
                        !.calls = InvocationsFrom(an.all_classes, 1, 1, 1)]
    /\ UNCHANGED <<sched, call, graph, pipe, budget, hist>>

CurrentClass == an.all_classes[Head(an.calls)[1]]
CurrentMethod == CurrentClass.methods[Head(an.calls)[2]]
CurrentInvocation == CurrentMethod.invocations[Head(an.calls)[3]]
CurrentTarget == TargetClass(an.all_classes, CurrentClass, CurrentInvocation)
CurrentSynthesis ==
    SynthesizeStep(graph, an.class_methods, an.synthetic_created, an.all_classes,
                   CurrentTarget, CurrentInvocation.name)

ResolveInvocation ==
    /\ an.pc = "resolve" /\ an.calls # <<>>
    /\ IF CurrentTarget = NoName
       THEN /\ an' = [an EXCEPT !.calls = Tail(@)]
            /\ graph' = graph
       ELSE /\ graph' = CurrentSynthesis.g
            /\ an' = [an EXCEPT
                        !.pc = "calls",
                        !.class_methods = CurrentSynthesis.class_methods,
                        !.synthetic_created = CurrentSynthesis.synthetic_created,
                        !.pending = [caller |-> Dot(CurrentClass.full_name,
                                                    CurrentMethod.name),
                                     owner |-> CurrentSynthesis.owner,
                                     target |-> CurrentTarget,
                                     called |-> CurrentInvocation.name]]
    /\ UNCHANGED <<sched, call, pipe, budget, hist>>

CurrentCalls ==
    CallsStep(graph, an.seen, an.pending.caller, an.pending.owner, an.pending.called)

CallsWrite ==
    /\ an.pc = "calls"
    /\ graph' = CurrentCalls.g
    /\ an' = [an EXCEPT !.pc = "resolve", !.calls = Tail(@),
                        !.seen = CurrentCalls.seen,
                        !.count = @ + CurrentCalls.n,
                        !.pending = NoPending]
    /\ UNCHANGED <<sched, call, pipe, budget, hist>>

Finish ==
    /\ an.pc = "resolve" /\ an.calls = <<>>
    /\ an' = [an EXCEPT !.pc = "done", !.result = "summary"]
    /\ UNCHANGED <<sched, call, graph, pipe, budget, hist>>

\* whether the next step of run() issues a store write
AtWrite ==
    \/ an.pc \in {"clear", "module"}
    \/ an.pc = "files" /\ an.todo # <<>>
    \/ an.pc = "resolve" /\ an.calls # <<>> /\ CurrentTarget # NoName
                         /\ CurrentSynthesis.writes
    \/ an.pc = "calls" /\ CurrentCalls.writes

\* the entity the next write of run() is for
WriteKind ==
    CASE an.pc = "clear" -> "clear"
      [] an.pc = "module" -> "module"
      [] an.pc = "files" -> Head(an.todo)[1]
      [] an.pc = "resolve" -> "stub"
      [] an.pc = "calls" -> "calls"

\* run_cypher_write raises: inside the per-file try it is counted as a parse
\* error and the rest of the file is skipped; anywhere else it leaves run()
WriteRaises ==
    /\ budget > 0 /\ hist.events < MaxEvents /\ AtWrite
    /\ budget' = budget - 1
    /\ hist' = [hist EXCEPT !.events = @ + 1]
    /\ an' = IF an.pc = "files"
             THEN [an EXCEPT !.todo = <<>>, !.clean = FALSE,
                             !.failed = @ \cup {WriteKind},
                             !.stats.parse_errors = @ + 1,
                             !.packages_seen =
                                IF Head(an.todo)[1] = "package"
                                THEN @ \cup {an.cur.package} ELSE @]
             ELSE [an EXCEPT !.pc = "done", !.result = "raised", !.clean = FALSE,
                             !.failed = @ \cup {WriteKind}]
    /\ UNCHANGED <<sched, call, graph, pipe>>

-----------------------------------------------------------------------------
(* Technology scanner *)

Sp(rest) == <<"org", "springframework">> \o rest

ImportSignals ==
    { <<Sp(<<"web", "bind", "annotation">>), "spring-web">>,
      <<Sp(<<"jms">>), "spring-jms">>,
      <<Sp(<<"scheduling", "annotation">>), "spring-scheduled">>,
      <<Sp(<<"cloud", "openfeign">>), "feign">>,
      <<Sp(<<"data">>), "spring-data">>,
      <<Sp(<<"web", "client", "RestTemplate">>), "rest-clients">>,
      <<Sp(<<"web", "reactive", "function", "client">>), "rest-clients">> }

AnnotationSignals ==
    { <<Sp(<<"web", "bind", "annotation", "RestController">>), "spring-web">>,
      <<Sp(<<"web", "bind", "annotation", "Controller">>), "spring-web">>,
      <<JmsListenerFqn, "spring-jms">>,
      <<Sp(<<"scheduling", "annotation", "Scheduled">>), "spring-scheduled">>,
      <<Sp(<<"cloud", "openfeign", "FeignClient">>), "feign">> }

SupertypeSignals ==
    { <<"JpaRepository", "spring-data">>, <<"CrudRepository", "spring-data">>,
      <<"PagingAndSortingRepository", "spring-data">>,
      <<"MongoRepository", "spring-data">>,
      <<"ReactiveMongoRepository", "spring-data">>,
      <<"ReactiveCrudRepository", "spring-data">>,
      <<"ElasticsearchRepository", "spring-data">> }

\* sorted() of the technology keys
TechOrder == <<"feign", "rest-clients", "spring-data", "spring-jms",
               "spring-scheduled", "spring-web">>

SortTechs(S) == SelectSeq(TechOrder, LAMBDA t : t \in S)

\* name.startswith(prefix), compared identifier by identifier (a prefix that
\* ends inside an identifier is not represented)
StartsWith(name, prefix) ==
    Len(prefix) <= Len(name) /\ SubSeq(name, 1, Len(prefix)) = prefix

ScanImports(g, m) ==
    LET cs == ClassesOf(g, Match(g, "Module", ModuleKey(m)))
    IN  {sig[2] : sig \in {x \in ImportSignals :
            \E c \in cs :
               \/ \E imp \in SeqToSet(NodeOf(g, c).props.imports) :
                     StartsWith(imp, x[1])
               \/ \E star \in SeqToSet(NodeOf(g, c).props.star_imports) :
                     \/ Len(star) < Len(x[1]) /\ StartsWith(x[1], star)
                     \/ StartsWith(star, x[1])}}

ScanAnnotations(g, m) ==
    LET cs == ClassesOf(g, Match(g, "Module", ModuleKey(m)))
        anns == UNION {SeqToSet(NodeOf(g, c).props.annotations) : c \in cs}
                \cup UNION {SeqToSet(NodeOf(g, x).props.annotations) :
                              x \in Out(g, cs, "HAS_METHOD") \cap MatchLabel(g, "Method")}
    IN  {sig[2] : sig \in {x \in AnnotationSignals : \E a \in anns : a.name = x[1]}}

ScanSupertypes(g, m) ==
    LET cs == ClassesOf(g, Match(g, "Module", ModuleKey(m)))
    IN  {sig[2] : sig \in {x \in SupertypeSignals :
            \E c \in cs : x[1] \in SeqToSet(NodeOf(g, c).props.supertypes)}}

Detect(g, m) ==
    SortTechs(ScanImports(g, m) \cup ScanAnnotations(g, m) \cup ScanSupertypes(g, m))

\* _store_detected: SET m.detected_technologies
StoreDetected(g, m, techs) ==
    [g EXCEPT !.n = {IF x.label = "Module" /\ x.key = ModuleKey(m)
                     THEN [x EXCEPT !.props.detected_technologies = techs]
                     ELSE x : x \in @}]

-----------------------------------------------------------------------------
(* Repository pipeline: Phase 0 and the Microservice node *)

ReposOf(g) == Match(g, "Repository", RepoPath)

RepoModules(g) == Out(g, ReposOf(g), "CONTAINS_MODULE") \cap MatchLabel(g, "Module")

\* the seven statements of Phase 0, in order
PhaseZero(g, step) ==
    CASE step = 1 -> DetachDelete(g, ArchImplementedBy(g, ClassesOf(g, RepoModules(g))))
      [] step = 2 -> DetachDelete(g, ArchImplementedBy(g, MethodsOf(g, RepoModules(g))))
      [] step = 3 -> DetachDelete(g, In(g, ReposOf(g), "IMPLEMENTED_BY")
                                      \cap MatchLabel(g, "Microservice"))
      [] step = 4 -> DetachDelete(g, Isolated(g, ArchNodes(g)))
      [] step = 5 -> DetachDelete(g, RepoModules(g) \cup Descendants(g, RepoModules(g)))
      [] step = 6 -> DetachDelete(g, ReposOf(g))
      [] step = 7 -> CreateNode(g, "Repository", RepoPath, NoProps)

\* MERGE (ms:Arch:Microservice {name}) ... MERGE (ms)-[:IMPLEMENTED_BY]->(r)
CreateMicroservice(g) ==
    IF ReposOf(g) = {} THEN g
    ELSE LET g1 == MergeNode(g, "Microservice", RepoName)
         IN  MergeEdges(g1, Match(g1, "Microservice", RepoName), "IMPLEMENTED_BY",
                        ReposOf(g1))

-----------------------------------------------------------------------------
(* Spring JMS enricher *)

\* get_annotation-style scan: the first annotation with the listener's name
RECURSIVE FirstAnnotation(_, _)
FirstAnnotation(anns, fqn) ==
    IF anns = <<>> THEN <<>>
    ELSE IF Head(anns).name = fqn THEN <<Head(anns)>>
    ELSE FirstAnnotation(Tail(anns), fqn)

\* args.get(key, "")
ArgGet(args, k) == IF HasKey(args, k) THEN Lookup(args, k) ELSE ""

RECURSIVE SetToSeq(_)
SetToSeq(S) ==
    IF S = {} THEN <<>>
    ELSE LET x == CHOOSE y \in S : \A z \in S : y <= z
         IN  <<x>> \o SetToSeq(S \ {x})

\* the rows of the listener query that carry @JmsListener
ListenerRecords(g, m) ==
    LET ms == SetToSeq(MethodsOf(g, Match(g, "Module", ModuleKey(m))))
        hit(i) == FirstAnnotation(NodeOf(g, i).props.annotations, JmsListenerFqn)
        rows == SelectSeq(ms, LAMBDA i : hit(i) # <<>>)
    IN  [k \in 1..Len(rows) |->
            [kind |-> "listener", full_name |-> NodeOf(g, rows[k]).key,
             name |-> SimpleOf(NodeOf(g, rows[k]).key),
             dests |-> <<ArgGet(hit(rows[k])[1].arguments, "destination")>>]]

\* the order in which a set of destination names is iterated
RECURSIVE IterationOrder(_)
IterationOrder(S) ==
    IF S = {} THEN <<>>
    ELSE LET x == CHOOSE y \in S : TRUE
         IN  <<x>> \o IterationOrder(S \ {x})

\* the literal first arguments of the send calls found in the source text
SendLiterals(source) ==
    {source[i][2] : i \in {j \in 1..Len(source) :
                              source[j][1] \in SendMethods /\ source[j][2] # NoLiteral}}

HasSendCalls(source) == \E i \in 1..Len(source) : source[i][1] \in SendMethods

\* the rows of the producer query whose source holds a send call
ProducerRecords(g, m) ==
    LET cs == SetToSeq(ClassesOf(g, Match(g, "Module", ModuleKey(m))))
        uses(i) == \/ JmsTemplateFqn \in SeqToSet(NodeOf(g, i).props.imports)
                   \/ JmsTemplatePkg \in SeqToSet(NodeOf(g, i).props.star_imports)
        rows == SelectSeq(cs, LAMBDA i : uses(i) /\ HasSendCalls(NodeOf(g, i).props.source))
    IN  [k \in 1..Len(rows) |->
            [kind |-> "producer", full_name |-> NodeOf(g, rows[k]).key,
             name |-> SimpleOf(NodeOf(g, rows[k]).key),
             dests |-> IterationOrder(SendLiterals(NodeOf(g, rows[k]).props.source))]]

DestKey(d) == <<d>>

MergeDestinationCreating(g, d) == CreateNode(g, "JMSDestination", DestKey(d), NoProps)

\* _merge_destination
MergeDestination(g, d) == MergeNode(g, "JMSDestination", DestKey(d))

CreateListener(g, method_full_name, d) ==
    CreateChildPerRow(g, Match(g, "Method", method_full_name), "JMSListener",
                      DestKey(d), NoProps, "IMPLEMENTED_BY", FALSE)

LinkListener(g, method_full_name, d) ==
    CreateEdges(g, In(g, Match(g, "Method", method_full_name), "IMPLEMENTED_BY")
                     \cap MatchLabel(g, "JMSListener"),
                "LISTENS_ON", Match(g, "JMSDestination", DestKey(d)))

CreateProducer(g, class_full_name, name) ==
    CreateChildPerRow(g, Match(g, "Class", class_full_name), "JMSProducer",
                      <<name>>, NoProps, "IMPLEMENTED_BY", FALSE)

LinkProducer(g, class_full_name, d) ==
    CreateEdges(g, In(g, Match(g, "Class", class_full_name), "IMPLEMENTED_BY")
                     \cap MatchLabel(g, "JMSProducer"),
                "SENDS_TO", Match(g, "JMSDestination", DestKey(d)))

\* the store writes one record of the enricher issues inside its try block
RECURSIVE ProducerDestOps(_, _, _)
ProducerDestOps(rec, k, destinations_seen) ==
    IF k > Len(rec.dests) THEN <<>>
    ELSE (IF rec.dests[k] \notin destinations_seen
          THEN << <<"dest", rec.full_name, rec.dests[k]>> >> ELSE <<>>)
         \o << <<"sends", rec.full_name, rec.dests[k]>> >>
         \o ProducerDestOps(rec, k + 1, destinations_seen)

RecordOps(rec, destinations_seen) ==
    IF rec.kind = "listener"
    THEN LET d == rec.dests[1]
         IN  (IF d # "" /\ d \notin destinations_seen
              THEN << <<"dest", rec.full_name, d>> >> ELSE <<>>)
             \o << <<"listener", rec.full_name, d>> >>
             \o (IF d # "" THEN << <<"listens", rec.full_name, d>> >> ELSE <<>>)
    ELSE << <<"producer", rec.full_name, "">> >>
         \o ProducerDestOps(rec, 1, destinations_seen)

EnrichOp(g, op) ==
    CASE op[1] = "dest" -> MergeDestination(g, op[3])
      [] op[1] = "listener" -> CreateListener(g, op[2], op[3])
      [] op[1] = "listens" -> LinkListener(g, op[2], op[3])
      [] op[1] = "producer" -> CreateProducer(g, op[2], SimpleOf(op[2]))
      [] op[1] = "sends" -> LinkProducer(g, op[2], op[3])

-----------------------------------------------------------------------------
(* Requests: start_job, start_repo and the repository pipeline *)

ModulesConfig == <<"ma", "mb">>

IdlePipe ==
    [pc |-> "idle", step |-> 0, remaining |-> {}, paths |-> {},
     config |-> <<>>, enrichment_modules |-> <<>>, all_technologies |-> {},
     module |-> "", records |-> <<>>, todo |-> <<>>, destinations_seen |-> {},
     scanned |-> {}, candidates |-> {}, current |-> <<>>, skipped |-> {},
     result |-> "none", clean |-> TRUE]

NoLast == [what |-> "none", paths |-> {}, clean |-> FALSE, g |-> EmptyGraph]

\* a candidate method or class of an enricher pass
Candidate(rec) == <<rec.kind, rec.full_name>>

EnricherHandlerReraises(p) ==
    [p EXCEPT !.pc = "done", !.result = "failed", !.clean = FALSE,
              !.skipped = @ \cup {p.current}]

\* the except clause around the writes of one candidate: log a warning and go
\* on with the next record
EnricherHandler(p) ==
    [p EXCEPT !.todo = <<>>, !.clean = FALSE, !.skipped = @ \cup {p.current}]

\* start_job -> _run_job -> analyzer.run, for one configured module
StartJob(m, ok) ==
    /\ an.pc = "idle" /\ pipe.pc = "idle" /\ hist.events < MaxEvents
    /\ an' = BeginRun(m, ok, "job")
    /\ hist' = [hist EXCEPT !.events = @ + 1, !.pre = graph]
    /\ UNCHANGED <<sched, call, graph, pipe, budget>>

\* start_repo -> _run_repo_pipeline
StartRepo ==
    /\ an.pc = "idle" /\ pipe.pc = "idle" /\ hist.events < MaxEvents
    /\ pipe' = [IdlePipe EXCEPT !.pc = "phase0", !.step = 1]
    /\ hist' = [hist EXCEPT !.events = @ + 1]
    /\ UNCHANGED <<sched, call, graph, an, budget>>

Phase0Step ==
    /\ pipe.pc = "phase0"
    /\ graph' = PhaseZero(graph, pipe.step)
    /\ pipe' = IF pipe.step < 7 THEN [pipe EXCEPT !.step = @ + 1]
               ELSE [pipe EXCEPT !.pc = "phase1", !.step = 0,
                                 !.remaining = SeqToSet(ModulesConfig)]
    /\ UNCHANGED <<sched, call, an, budget, hist>>

\* one of the gathered _run_job tasks enters analyzer.run
StartModuleTask(m, ok) ==
    /\ pipe.pc = "phase1" /\ an.pc = "idle" /\ m \in pipe.remaining
    /\ an' = BeginRun(m, ok, "pipeline")
    /\ pipe' = [pipe EXCEPT !.paths = @ \cup {<<m, ok>>}]
    /\ hist' = [hist EXCEPT !.pre = graph]
    /\ UNCHANGED <<sched, call, graph, budget>>

\* _run_job after analyzer.run returned or raised
Return ==
    /\ an.pc = "done"
    /\ an' = IdleAnalyzer
    /\ IF an.mode = "job"
       THEN /\ hist' = [hist EXCEPT !.last =
                          [what |-> an.module, paths |-> {<<an.module, an.pathOk>>},
                           clean |-> an.clean, g |-> graph]]
            /\ pipe' = pipe
       ELSE /\ pipe' = [pipe EXCEPT !.remaining = @ \ {an.module},
                                    !.clean = @ /\ an.clean]
            /\ hist' = hist
    /\ UNCHANGED <<sched, call, graph, budget>>

UsesConfiguredNever(m) == FALSE

\* if mc["technologies"]: the manual override
UsesConfigured(m) == ConfiguredTechnologies(m) # <<>>

BeginDetect ==
    /\ pipe.pc = "phase1" /\ pipe.remaining = {} /\ an.pc = "idle"
    /\ pipe' = [pipe EXCEPT !.pc = "detect", !.config = ModulesConfig]
    /\ UNCHANGED <<sched, call, graph, an, budget, hist>>

\* one iteration of the Phase 1.5 loop
DetectStep ==
    /\ pipe.pc = "detect" /\ pipe.config # <<>>
    /\ LET m == Head(pipe.config)
           scan == ~UsesConfigured(m)
           techs == IF scan THEN Detect(graph, m) ELSE ConfiguredTechnologies(m)
       IN  /\ graph' = IF scan THEN StoreDetected(graph, m, techs) ELSE graph
           /\ pipe' = [pipe EXCEPT
                         !.config = Tail(@),
                         !.scanned = IF scan THEN @ \cup {m} ELSE @,
                         !.enrichment_modules =
                            IF techs # <<>>
                            THEN Append(@, [module_name |-> m, technologies |-> techs])
                            ELSE @,
                         !.all_technologies = @ \cup SeqToSet(techs)]
    /\ UNCHANGED <<sched, call, an, budget, hist>>

MicroserviceStep ==
    /\ pipe.pc = "detect" /\ pipe.config = <<>>
    /\ graph' = IF pipe.all_technologies # {} THEN CreateMicroservice(graph) ELSE graph
    /\ pipe' = [pipe EXCEPT !.pc = "enrich"]
    /\ UNCHANGED <<sched, call, an, budget, hist>>

\* _create_enricher for the next (module, technology) pair; the Spring JMS
\* enricher reads its listener and producer rows
NextEnricher ==
    /\ pipe.pc = "enrich" /\ pipe.todo = <<>> /\ pipe.records = <<>>
    /\ pipe.enrichment_modules # <<>>
    /\ LET em == Head(pipe.enrichment_modules)
       IN  IF em.technologies = <<>>
           THEN pipe' = [pipe EXCEPT !.enrichment_modules = Tail(@)]
           ELSE LET records == IF Head(em.technologies) = "spring-jms"
                               THEN ListenerRecords(graph, em.module_name)
                                    \o ProducerRecords(graph, em.module_name)
                               ELSE <<>>
                IN  pipe' = [pipe EXCEPT
                               !.enrichment_modules[1].technologies = Tail(@),
                               !.module = em.module_name,
                               !.destinations_seen = {},
                               !.records = records,
                               !.candidates = @ \cup
                                  {Candidate(records[k]) : k \in 1..Len(records)}]
    /\ UNCHANGED <<sched, call, graph, an, budget, hist>>

NextRecord ==
    /\ pipe.pc = "enrich" /\ pipe.todo = <<>> /\ pipe.records # <<>>
    /\ pipe' = [pipe EXCEPT !.records = Tail(@),
                            !.current = Candidate(Head(pipe.records)),
                            !.todo = RecordOps(Head(pipe.records),
                                               pipe.destinations_seen)]
    /\ UNCHANGED <<sched, call, graph, an, budget, hist>>

EnrichWrite ==
    /\ pipe.pc = "enrich" /\ pipe.todo # <<>>
    /\ graph' = EnrichOp(graph, Head(pipe.todo))
    /\ pipe' = [pipe EXCEPT !.todo = Tail(@),
                            !.destinations_seen =
                               IF Head(pipe.todo)[1] = "dest"
                               THEN @ \cup {Head(pipe.todo)[3]} ELSE @]
    /\ UNCHANGED <<sched, call, an, budget, hist>>

PipelineCompletes ==
    /\ pipe.pc = "enrich" /\ pipe.todo = <<>> /\ pipe.records = <<>>
    /\ pipe.enrichment_modules = <<>>
    /\ pipe' = [pipe EXCEPT !.pc = "done", !.result = "completed"]
    /\ UNCHANGED <<sched, call, graph, an, budget, hist>>

\* whether the next step of the pipeline issues a store write
PipeAtWrite ==
    \/ pipe.pc = "phase0"
    \/ pipe.pc = "detect" /\ pipe.config # <<>>
                          /\ ~UsesConfigured(Head(pipe.config))
    \/ pipe.pc = "detect" /\ pipe.config = <<>> /\ pipe.all_technologies # {}
    \/ pipe.pc = "enrich" /\ pipe.todo # <<>>

\* run_cypher_write raises in the pipeline: Phase 0 has no handler, the
\* enrichment phase fails as a whole, an enricher skips the record
PipeWriteRaises ==
    /\ budget > 0 /\ hist.events < MaxEvents /\ PipeAtWrite
    /\ budget' = budget - 1
    /\ hist' = [hist EXCEPT !.events = @ + 1]
    /\ pipe' = CASE pipe.pc = "phase0" ->
                      [pipe EXCEPT !.pc = "done", !.result = "aborted",
                                   !.clean = FALSE]
                 [] pipe.pc = "detect" ->
                      [pipe EXCEPT !.pc = "done", !.result = "failed",
                                   !.clean = FALSE]
                 [] pipe.pc = "enrich" -> EnricherHandler(pipe)
    /\ UNCHANGED <<sched, call, graph, an>>

PipelineReturn ==
    /\ pipe.pc = "done"
    /\ pipe' = IdlePipe
    /\ hist' = [hist EXCEPT !.last =
                  [what |-> "repo", paths |-> pipe.paths,
                   clean |-> pipe.clean, g |-> graph]]
    /\ UNCHANGED <<sched, call, graph, an, budget>>

-----------------------------------------------------------------------------
(* Specification *)

Init ==
    /\ graph = EmptyGraph
    /\ an = IdleAnalyzer
    /\ pipe = IdlePipe
    /\ budget = MaxFailures
    /\ hist = [events |-> 0, pre |-> EmptyGraph, last |-> NoLast]
    /\ sched = Unused
    /\ call = Unused

Next ==
    \/ \E m \in Modules, ok \in BOOLEAN : StartJob(m, ok)
    \/ ClearStep
    \/ ModuleStep
    \/ WalkStep
    \/ ParseFile
    \/ ParseRaises
    \/ FileWrite
    \/ BeginResolve
    \/ ResolveInvocation
    \/ CallsWrite
    \/ Finish
    \/ WriteRaises
    \/ Return
    \/ StartRepo
    \/ Phase0Step
    \/ \E m \in Modules, ok \in BOOLEAN : StartModuleTask(m, ok)
    \/ BeginDetect
    \/ DetectStep
    \/ MicroserviceStep
    \/ NextEnricher
    \/ NextRecord
    \/ EnrichWrite
    \/ PipelineCompletes
    \/ PipeWriteRaises
    \/ PipelineReturn

Spec == Init /\ [][Next]_vars

-----------------------------------------------------------------------------
(* The event loop: start_repo, _run_repo_pipeline and _run_job as coroutines  *)
(* of one asyncio loop, analyzer.run, scanner.detect and enricher.enrich as   *)
(* worker threads (asyncio.to_thread).  A coroutine runs from one await to    *)
(* the next without any other coroutine running; worker threads run at any    *)
(* time.  Phase 0 has no await: its seven writes are steps of one turn, so    *)
(* the pipeline holds the loop through them.  Here the store is left out:     *)
(* a write is a step, not its effect.                                         *)

\* start_repo requests per behaviour
MaxPipelines == 2

\* store writes of one worker-thread call
MaxThreadWrites == 1

Pipelines == 1..MaxPipelines

EnrichmentJob == "Architecture Enrichment"

JobNames == Modules \cup {EnrichmentJob}

NoTask == [pc |-> "none", writes |-> 0, ok |-> TRUE]

\* _ENRICHER_REGISTRY: the technologies an enricher exists for
EnricherRegistry ==
    {"spring-web", "spring-jms", "spring-scheduled", "feign", "rest-clients",
     "spring-data"}

\* modules_config of a start_repo request: every module auto-detected, or
\* the second module with configured technologies, one of them unregistered
LoopConfigs ==
    { [m \in Modules |-> <<>>],
      [m \in Modules |-> IF ConfiguredTechnologies(m) # <<>>
                         THEN <<"kafka">> \o ConfiguredTechnologies(m)
                         ELSE <<>>] }

\* what scanner.detect returns: nothing, or a sorted technology list
ScanResults == {<<>>, <<"spring-jms", "spring-web">>}

\* a Phase 2 call handed to a worker thread
ScanCall(m) == <<"scan", m, "">>

EnrichCall(m, tech) == <<"enrich", m, tech>>

NoPipeline ==
    [pc |-> "absent", step |-> 0, scans |-> <<>>, enrichs |-> <<>>,
     writes |-> 0, config |-> [m \in Modules |-> <<>>],
     techs |-> [m \in Modules |-> <<>>], log |-> <<>>, inflight |-> {},
     task |-> [m \in Modules |-> NoTask],
     status |-> [j \in JobNames |-> "NONE"]]

IdleLoop ==
    [loop |-> 0, failures |-> MaxFailures,
     pipe |-> [p \in Pipelines |-> NoPipeline]]

LoopFreeAlways(s) == TRUE

\* no coroutine is in the middle of a turn
LoopFree(s) == s.loop = 0

JoinedAny(ps) == \E m \in Modules : ps.task[m].pc = "done"

\* await asyncio.gather(*tasks): every _run_job coroutine has returned
Joined(ps) == \A m \in Modules : ps.task[m].pc = "done"

\* the rest of the turn that enters or re-enters Phase 1.5 / Phase 2: modules
\* with configured technologies need no await; the turn ends at the next
\* to_thread call or at the end of the pipeline
EnricherCallsReversed(m, techs) ==
    [k \in 1..Len(techs) |-> EnrichCall(m, techs[Len(techs) + 1 - k])]

\* for tech in em["technologies"]: one entry per technology, in list order
EnricherCalls(m, techs) ==
    [k \in 1..Len(techs) |-> EnrichCall(m, techs[k])]

\* asyncio.to_thread(...): the call is handed to a worker thread and the
\* coroutine awaits it
ToThread(ps, c, pc) ==
    [ps EXCEPT !.pc = pc, !.writes = 0, !.log = Append(@, c),
               !.inflight = @ \cup {c}]

\* enrichment_modules.append(...) when techs is not empty
WithTechs(ps, m, techs) ==
    [ps EXCEPT !.scans = Tail(@), !.techs[m] = techs,
               !.enrichs = @ \o EnricherCalls(m, techs)]

RECURSIVE AdvancePhase2(_)
AdvancePhase2(ps) ==
    IF ps.scans # <<>>
    THEN IF ps.config[Head(ps.scans)] # <<>>
         THEN AdvancePhase2(WithTechs(ps, Head(ps.scans),
                                      ps.config[Head(ps.scans)]))
         ELSE ToThread(ps, ScanCall(Head(ps.scans)), "scanning")
    ELSE IF ps.enrichs # <<>>
         THEN IF Head(ps.enrichs)[3] \in EnricherRegistry
              THEN ToThread(ps, Head(ps.enrichs), "enriching")
              ELSE AdvancePhase2([ps EXCEPT !.enrichs = Tail(@)])
         ELSE [ps EXCEPT !.pc = "closing"]

\* the end of a turn of _run_repo_pipeline in Phase 1.5 or Phase 2: the
\* coroutine awaits a worker thread, or it goes on to driver.close() without
\* giving up the loop
Resume(s, p, ps) ==
    [s EXCEPT !.pipe[p] = ps, !.loop = IF ps.pc = "closing" THEN p ELSE 0]

\* start_repo: one PENDING job per module and the enrichment job, then
\* asyncio.create_task(_run_repo_pipeline(...))
CoStartRepo(p, cfg) ==
    /\ LoopFree(sched)
    /\ sched.pipe[p].pc = "absent"
    /\ \A q \in Pipelines : q < p => sched.pipe[q].pc # "absent"
    /\ sched' = [sched EXCEPT !.pipe[p].pc = "scheduled",
                              !.pipe[p].config = cfg,
                              !.pipe[p].status = [j \in JobNames |-> "PENDING"]]
    /\ UNCHANGED <<graph, an, pipe, budget, hist, call>>

\* _run_repo_pipeline starts its first turn: Phase 0
CoPhase0Begin(p) ==
    /\ LoopFree(sched)
    /\ sched.pipe[p].pc = "scheduled"
    /\ sched' = [sched EXCEPT !.pipe[p].pc = "phase0", !.pipe[p].step = 1,
                              !.loop = p]
    /\ UNCHANGED <<graph, an, pipe, budget, hist, call>>

\* one Phase 0 write; after the seventh the turn goes on to create the
\* _run_job coroutines and awaits asyncio.gather
CoPhase0Write(p) ==
    /\ sched.pipe[p].pc = "phase0"
    /\ sched' = IF sched.pipe[p].step < 7
                THEN [sched EXCEPT !.pipe[p].step = @ + 1]
                ELSE [sched EXCEPT
                        !.pipe[p].pc = "gather", !.pipe[p].step = 0,
                        !.pipe[p].task = [m \in Modules |->
                                            [NoTask EXCEPT !.pc = "ready"]],
                        !.loop = 0]
    /\ UNCHANGED <<graph, an, pipe, budget, hist, call>>

\* a Phase 0 write raises: try/finally without except, the pipeline task dies
CoPhase0Raises(p) ==
    /\ sched.pipe[p].pc = "phase0" /\ sched.failures > 0
    /\ sched' = [sched EXCEPT !.pipe[p].pc = "aborted", !.loop = 0,
                              !.failures = @ - 1]
    /\ UNCHANGED <<graph, an, pipe, budget, hist, call>>

\* _run_job up to its await: status RUNNING, analyzer.run handed to a thread
CoRunJobBegin(p, m) ==
    /\ LoopFree(sched)
    /\ sched.pipe[p].task[m].pc = "ready"
    /\ sched' = [sched EXCEPT !.pipe[p].task[m].pc = "thread",
                              !.pipe[p].status[m] = "RUNNING"]
    /\ UNCHANGED <<graph, an, pipe, budget, hist, call>>

\* analyzer.run in its worker thread issues a store write
ThreadWrite(p, m) ==
    /\ sched.pipe[p].task[m].pc = "thread"
    /\ sched.pipe[p].task[m].writes < MaxThreadWrites
    /\ sched' = [sched EXCEPT !.pipe[p].task[m].writes = @ + 1]
    /\ UNCHANGED <<graph, an, pipe, budget, hist, call>>

\* analyzer.run returns its summary
ThreadReturns(p, m) ==
    /\ sched.pipe[p].task[m].pc = "thread"
    /\ sched.pipe[p].task[m].writes = MaxThreadWrites
    /\ sched' = [sched EXCEPT !.pipe[p].task[m].pc = "returned"]
    /\ UNCHANGED <<graph, an, pipe, budget, hist, call>>

\* analyzer.run raises
ThreadRaises(p, m) ==
    /\ sched.pipe[p].task[m].pc = "thread" /\ sched.failures > 0
    /\ sched' = [sched EXCEPT !.pipe[p].task[m].pc = "returned",
                              !.pipe[p].task[m].ok = FALSE,
                              !.failures = @ - 1]
    /\ UNCHANGED <<graph, an, pipe, budget, hist, call>>

\* _run_job after its await.  analyzer.run returned: COMPLETED, and the turn
\* goes on to driver.close() in the finally clause.  analyzer.run raised: the
\* driver is closed and the except clause sets FAILED.
CoRunJobEnd(p, m) ==
    /\ LoopFree(sched)
    /\ sched.pipe[p].task[m].pc = "returned"
    /\ sched' = IF sched.pipe[p].task[m].ok
                THEN [sched EXCEPT !.pipe[p].task[m].pc = "closing",
                                   !.pipe[p].status[m] = "COMPLETED",
                                   !.loop = p]
                ELSE [sched EXCEPT !.pipe[p].task[m].pc = "done",
                                   !.pipe[p].status[m] = "FAILED"]
    /\ UNCHANGED <<graph, an, pipe, budget, hist, call>>

\* finally: driver.close() returns and _run_job ends
CoRunJobClose(p, m) ==
    /\ sched.pipe[p].task[m].pc = "closing"
    /\ sched' = [sched EXCEPT !.pipe[p].task[m].pc = "done", !.loop = 0]
    /\ UNCHANGED <<graph, an, pipe, budget, hist, call>>

\* finally: driver.close() raises into the outer except clause, which sets
\* FAILED
CoRunJobCloseRaises(p, m) ==
    /\ sched.pipe[p].task[m].pc = "closing" /\ sched.failures > 0
    /\ sched' = [sched EXCEPT !.pipe[p].task[m].pc = "done",
                              !.pipe[p].status[m] = "FAILED",
                              !.loop = 0, !.failures = @ - 1]
    /\ UNCHANGED <<graph, an, pipe, budget, hist, call>>

\* gather returns: the enrichment job is RUNNING and Phase 1.5 starts
CoGatherReturns(p) ==
    /\ LoopFree(sched)
    /\ sched.pipe[p].pc = "gather" /\ Joined(sched.pipe[p])
    /\ sched' = Resume(sched, p,
                   AdvancePhase2([sched.pipe[p] EXCEPT
                                    !.status[EnrichmentJob] = "RUNNING",
                                    !.scans = ModulesConfig]))
    /\ UNCHANGED <<graph, an, pipe, budget, hist, call>>

\* scanner.detect or enricher.enrich in its worker thread issues a store write
Phase2ThreadWrite(p) ==
    /\ sched.pipe[p].pc \in {"scanning", "enriching"}
    /\ sched.pipe[p].writes < MaxThreadWrites
    /\ sched' = [sched EXCEPT !.pipe[p].writes = @ + 1]
    /\ UNCHANGED <<graph, an, pipe, budget, hist, call>>

\* scanner.detect returns (with or without technologies) and the pipeline
\* takes its next turn
CoScanReturns(p, found) ==
    /\ LoopFree(sched)
    /\ sched.pipe[p].pc = "scanning"
    /\ sched.pipe[p].writes = MaxThreadWrites
    /\ sched' = Resume(sched, p,
                   AdvancePhase2(WithTechs([sched.pipe[p] EXCEPT !.inflight = {}],
                                           Head(sched.pipe[p].scans), found)))
    /\ UNCHANGED <<graph, an, pipe, budget, hist, call>>

\* enricher.enrich returns and the pipeline takes its next turn
CoEnrichReturns(p) ==
    /\ LoopFree(sched)
    /\ sched.pipe[p].pc = "enriching"
    /\ sched' = Resume(sched, p,
                   AdvancePhase2([sched.pipe[p] EXCEPT !.enrichs = Tail(@),
                                                       !.inflight = {}]))
    /\ UNCHANGED <<graph, an, pipe, budget, hist, call>>

\* scanner.detect or enricher.enrich raises: the enrichment job is FAILED
CoPhase2Raises(p) ==
    /\ LoopFree(sched)
    /\ sched.pipe[p].pc \in {"scanning", "enriching"} /\ sched.failures > 0
    /\ sched' = [sched EXCEPT !.pipe[p].pc = "finished",
                              !.pipe[p].inflight = {},
                              !.pipe[p].status[EnrichmentJob] = "FAILED",
                              !.failures = @ - 1]
    /\ UNCHANGED <<graph, an, pipe, budget, hist, call>>

\* finally: driver.close() returns, then the enrichment job is COMPLETED
CoPhase2Close(p) ==
    /\ sched.pipe[p].pc = "closing"
    /\ sched' = [sched EXCEPT !.pipe[p].pc = "finished",
                              !.pipe[p].status[EnrichmentJob] = "COMPLETED",
                              !.loop = 0]
    /\ UNCHANGED <<graph, an, pipe, budget, hist, call>>

\* finally: driver.close() raises, the except clause sets FAILED
CoPhase2CloseRaises(p) ==
    /\ sched.pipe[p].pc = "closing" /\ sched.failures > 0
    /\ sched' = [sched EXCEPT !.pipe[p].pc = "finished",
                              !.pipe[p].status[EnrichmentJob] = "FAILED",
                              !.loop = 0, !.failures = @ - 1]
    /\ UNCHANGED <<graph, an, pipe, budget, hist, call>>

InitLoop ==
    /\ graph = EmptyGraph
    /\ an = IdleAnalyzer
    /\ pipe = IdlePipe
    /\ budget = 0
    /\ hist = [events |-> 0, pre |-> EmptyGraph, last |-> NoLast]
    /\ sched = IdleLoop
    /\ call = Unused

NextLoop ==
    \/ \E p \in Pipelines, cfg \in LoopConfigs : CoStartRepo(p, cfg)
    \/ \E p \in Pipelines : CoPhase0Begin(p)
    \/ \E p \in Pipelines : CoPhase0Write(p)
    \/ \E p \in Pipelines : CoPhase0Raises(p)
    \/ \E p \in Pipelines, m \in Modules : CoRunJobBegin(p, m)
    \/ \E p \in Pipelines, m \in Modules : ThreadWrite(p, m)
    \/ \E p \in Pipelines, m \in Modules : ThreadReturns(p, m)
    \/ \E p \in Pipelines, m \in Modules : ThreadRaises(p, m)
    \/ \E p \in Pipelines, m \in Modules : CoRunJobEnd(p, m)
    \/ \E p \in Pipelines, m \in Modules : CoRunJobClose(p, m)
    \/ \E p \in Pipelines, m \in Modules : CoRunJobCloseRaises(p, m)
    \/ \E p \in Pipelines : CoGatherReturns(p)
    \/ \E p \in Pipelines : Phase2ThreadWrite(p)
    \/ \E p \in Pipelines, found \in ScanResults : CoScanReturns(p, found)
    \/ \E p \in Pipelines : CoEnrichReturns(p)
    \/ \E p \in Pipelines : CoPhase2Raises(p)
    \/ \E p \in Pipelines : CoPhase2Close(p)
    \/ \E p \in Pipelines : CoPhase2CloseRaises(p)

SpecLoop == InitLoop /\ [][NextLoop]_vars

\* the event loop runs every coroutine that is ready and the thread pool runs
\* every call handed to it; nothing forces a request or a failure
FairLoop ==
    /\ \A p \in Pipelines :
          /\ WF_vars(CoPhase0Begin(p))
          /\ WF_vars(CoPhase0Write(p))
          /\ WF_vars(CoGatherReturns(p))
          /\ WF_vars(Phase2ThreadWrite(p))
          /\ WF_vars(\E found \in ScanResults : CoScanReturns(p, found))
          /\ WF_vars(CoEnrichReturns(p))
          /\ WF_vars(CoPhase2Close(p))
    /\ \A p \in Pipelines, m \in Modules :
          /\ WF_vars(CoRunJobBegin(p, m))
          /\ WF_vars(ThreadWrite(p, m))
          /\ WF_vars(ThreadReturns(p, m))
          /\ WF_vars(CoRunJobEnd(p, m))
          /\ WF_vars(CoRunJobClose(p, m))

SpecLoopFair == SpecLoop /\ FairLoop

-----------------------------------------------------------------------------
(* _join_paths of the Spring Web and Feign enrichers: strings are sequences   *)
(* of characters                                                              *)

\* longest base path and method path drawn as input
MaxPathLen == 3

PathChars == {"/", "a"}

Str(S) == UNION {[1..n -> S] : n \in 0..MaxPathLen}

Api == <<"/", "a", "p", "i">>

Users == <<"u", "s", "e", "r", "s">>

\* every pair of short paths, and the pairs the documentation names
PathInputs ==
    (Str(PathChars) \X Str(PathChars))
    \cup {<<Api, <<>>>>, <<<<>>, <<"/">> \o Users>>, <<Api \o <<"/">>, Users>>}

\* str.rstrip("/")
RECURSIVE Rstrip(_)
Rstrip(s) ==
    IF s = <<>> THEN <<>>
    ELSE IF s[Len(s)] = "/" THEN Rstrip(SubSeq(s, 1, Len(s) - 1))
    ELSE s

\* str.lstrip("/")
RECURSIVE Lstrip(_)
Lstrip(s) ==
    IF s = <<>> THEN <<>>
    ELSE IF Head(s) = "/" THEN Lstrip(Tail(s))
    ELSE s

JoinPathsUnstripped(base, method_path) ==
    IF base = <<>> /\ method_path = <<>> THEN <<"/">>
    ELSE IF method_path = <<>> THEN base
    ELSE IF base = <<>> THEN <<"/">> \o method_path
    ELSE base \o <<"/">> \o method_path

\* spring_web._join_paths
JoinPaths(base, method_path) ==
    LET b == IF base # <<>> THEN Rstrip(base) ELSE <<>>
        mp == IF method_path # <<>> THEN Lstrip(method_path) ELSE <<>>
    IN  IF b = <<>> /\ mp = <<>> THEN <<"/">>
        ELSE IF mp = <<>> THEN (IF b # <<>> THEN b ELSE <<"/">>)
        ELSE IF b = <<>> THEN <<"/">> \o mp
        ELSE b \o <<"/">> \o mp

\* feign_client._join_paths
FeignJoinPaths(base, method_path) ==
    LET b == IF base # <<>> THEN Rstrip(base) ELSE <<>>
        mp == IF method_path # <<>> THEN Lstrip(method_path) ELSE <<>>
    IN  IF b = <<>> /\ mp = <<>> THEN <<"/">>
        ELSE IF mp = <<>> THEN (IF b # <<>> THEN b ELSE <<"/">>)
        ELSE IF b = <<>> THEN <<"/">> \o mp
        ELSE b \o <<"/">> \o mp

\* SpringWebEnricher._resolve_endpoint calls _join_paths(base_path, path)
SpringWebJoin ==
    /\ call.pc = "input"
    /\ call' = [call EXCEPT !.pc = "web",
                            !.result = JoinPaths(call.base, call.method_path)]
    /\ UNCHANGED <<graph, an, pipe, budget, hist, sched>>

\* FeignClientEnricher._resolve_endpoint calls _join_paths(base_path, path)
FeignJoin ==
    /\ call.pc = "input"
    /\ call' = [call EXCEPT !.pc = "feign",
                            !.result = FeignJoinPaths(call.base, call.method_path)]
    /\ UNCHANGED <<graph, an, pipe, budget, hist, sched>>

InitPaths ==
    /\ graph = EmptyGraph
    /\ an = IdleAnalyzer
    /\ pipe = IdlePipe
    /\ budget = 0
    /\ hist = [events |-> 0, pre |-> EmptyGraph, last |-> NoLast]
    /\ sched = Unused
    /\ \E in \in PathInputs :
          call = [pc |-> "input", base |-> in[1], method_path |-> in[2],
                  result |-> <<>>]

NextPaths == SpringWebJoin \/ FeignJoin

SpecPaths == InitPaths /\ [][NextPaths]_vars

-----------------------------------------------------------------------------
(* Receiver resolution of _create_calls_relationships applied to drawn        *)
(* modules: a caller type p.C and any of the types p.T, q.T, p.U              *)

Cls(pkg, n, imps, flds) ==
    [name |-> n, full_name |-> Dot(pkg, n), imports |-> imps, fields |-> flds,
     static_method_imports |-> <<>>, supertypes |-> <<>>, methods |-> <<>>]

OtherTypes == << <<"p", "T">>, <<"q", "T">>, <<"p", "U">> >>

\* the types of S in the order of OtherTypes
RECURSIVE TypesIn(_, _)
TypesIn(S, k) ==
    IF k > Len(OtherTypes) THEN <<>>
    ELSE (IF OtherTypes[k] \in S
          THEN <<Cls(<<OtherTypes[k][1]>>, OtherTypes[k][2], <<>>, <<>>)>>
          ELSE <<>>) \o TypesIn(S, k + 1)

CallerImports == {<<>>, << <<"q", "T">> >>}

CallerFields ==
    {<<>>, << <<"T", "U">> >>, << <<"x", "T">> >>, << <<"x", "U">> >>,
     << <<"T", "T">> >>}

Receivers == {"T", "x", "U", NoReceiver}

\* receiver resolution of one invocation of the first type of the module
ResolveReceiver ==
    /\ call.pc = "input"
    /\ call' = [call EXCEPT !.pc = "target",
                            !.result = TargetClass(call.all, call.all[1], call.inv)]
    /\ UNCHANGED <<graph, an, pipe, budget, hist, sched>>

InitTarget ==
    /\ graph = EmptyGraph
    /\ an = IdleAnalyzer
    /\ pipe = IdlePipe
    /\ budget = 0
    /\ hist = [events |-> 0, pre |-> EmptyGraph, last |-> NoLast]
    /\ sched = Unused
    /\ \E S \in SUBSET SeqToSet(OtherTypes), imps \in CallerImports,
          flds \in CallerFields, r \in Receivers :
          call = [pc |-> "input",
                  all |-> <<Cls(<<"p">>, "C", imps, flds)>> \o TypesIn(S, 1),
                  inv |-> Inv("m", r), result |-> NoName]

NextTarget == ResolveReceiver

SpecTarget == InitTarget /\ [][NextTarget]_vars

-----------------------------------------------------------------------------
(* Graphs compared by natural key *)

NatKey(x) == <<x.label, x.key>>

EdgeNat(g, e) == <<NatKey(NodeOf(g, e[1])), e[2], NatKey(NodeOf(g, e[3]))>>

CountNodes(g, k) == Cardinality({x \in g.n : NatKey(x) = k})

RECURSIVE SumCounts(_, _)
SumCounts(g, E) ==
    IF E = {} THEN 0
    ELSE LET e == CHOOSE f \in E : TRUE
         IN  g.e[e] + SumCounts(g, E \ {e})

CountEdges(g, k) == SumCounts(g, {e \in DOMAIN g.e : EdgeNat(g, e) = k})

NodeKeys(g) == {NatKey(x) : x \in g.n}

EdgeKeys(g) == {EdgeNat(g, e) : e \in DOMAIN g.e}

SameGraph(g, h) ==
    /\ NodeKeys(g) = NodeKeys(h)
    /\ EdgeKeys(g) = EdgeKeys(h)
    /\ \A k \in NodeKeys(g) : CountNodes(g, k) = CountNodes(h, k)
    /\ \A k \in EdgeKeys(g) : CountEdges(g, k) = CountEdges(h, k)

MetamodelLabels == {"Repository", "Module", "Package", "Class", "Method"}

CallsEdges(g) == {e \in DOMAIN g.e : e[2] = "CALLS"}

KeyOf(g, i) == NodeOf(g, i).key

-----------------------------------------------------------------------------
(* Claims *)

\* C1: a clean run of a module's analysis (or of the repository pipeline)
\* over an existing source tree that directly follows a clean run of the
\* same request on the same tree ends in the graph the first run ended in,
\* by natural keys and by node and edge counts, and that graph holds no two
\* metamodel nodes with one natural key and no doubled CALLS edge.
C1_RerunIdentical ==
    /\ (/\ an.pc = "done" /\ an.mode = "job" /\ an.clean /\ an.result = "summary"
        /\ hist.last.clean /\ hist.last.what = an.module
        /\ an.pathOk /\ hist.last.paths = {<<an.module, TRUE>>})
       => /\ SameGraph(graph, hist.last.g)
          /\ \A x \in graph.n : x.label \in MetamodelLabels
                                  => CountNodes(graph, NatKey(x)) = 1
          /\ \A k \in EdgeKeys(graph) : k[2] = "CALLS" => CountEdges(graph, k) = 1
    /\ (/\ pipe.pc = "done" /\ pipe.clean /\ pipe.result = "completed"
        /\ hist.last.clean /\ hist.last.what = "repo"
        /\ hist.last.paths = pipe.paths)
       => SameGraph(graph, hist.last.g)

\* what the source tree of module m declares, by natural key
OwnKeys(m) ==
    LET files == SourceFiles(m)
        classes == UNION {SeqToSet(ParseJavaFile(files[i]).classes) :
                            i \in 1..Len(files)}
    IN  {<<"Module", ModuleKey(m)>>}
        \cup {<<"Class", c.full_name>> : c \in classes}
        \cup UNION {{<<"Method", Dot(c.full_name, c.methods[j].name)>> :
                       j \in 1..Len(c.methods)} : c \in classes}

ForeignKeys(m) == UNION {OwnKeys(o) : o \in Modules \ {m}} \ OwnKeys(m)

\* node x of g belongs to a module other than m: declared by the other
\* module only, a stub on such a type, or an architecture node derived from one
Foreign(g, x, m) ==
    \/ NatKey(x) \in ForeignKeys(m)
    \/ /\ x.label = "Method"
       /\ <<"Class", SubSeq(x.key, 1, Len(x.key) - 1)>> \in ForeignKeys(m)
    \/ /\ x.label \in ArchLabels
       /\ \E e \in DOMAIN g.e :
             /\ e[1] = x.id /\ e[2] = "IMPLEMENTED_BY"
             /\ NatKey(NodeOf(g, e[3])) \in ForeignKeys(m)

\* C2: when a single-module run for M ends, every node that belonged to
\* another module when the run started, and every edge at such a node, is
\* still in the graph, as many times as before.
C2_OtherModulesUntouched ==
    (an.pc = "done" /\ an.mode = "job")
    => /\ \A x \in hist.pre.n :
             Foreign(hist.pre, x, an.module)
             => CountNodes(graph, NatKey(x)) = CountNodes(hist.pre, NatKey(x))
       /\ \A e \in DOMAIN hist.pre.e :
             (\/ Foreign(hist.pre, NodeOf(hist.pre, e[1]), an.module)
              \/ Foreign(hist.pre, NodeOf(hist.pre, e[3]), an.module))
             => CountEdges(graph, EdgeNat(hist.pre, e))
                  = CountEdges(hist.pre, EdgeNat(hist.pre, e))

\* C3: every step that adds a CALLS relationship adds it between two nodes
\* that were Method nodes of the graph before the step.
C3_CallsEndpointsExist ==
    [][\A e \in CallsEdges(graph') :
          (e \notin DOMAIN graph.e \/ graph'.e[e] > graph.e[e])
          => /\ e[1] \in MatchLabel(graph, "Method")
             /\ e[3] \in MatchLabel(graph, "Method")]_vars

\* a CALLS edge to the stub X.foo exists after a store write has failed
C3_Witness ==
    /\ budget < MaxFailures
    /\ \E e \in CallsEdges(graph) : KeyOf(graph, e[3]) = <<"p", "X", "foo">>

\* C4: no CALLS edge joins a method to itself, and when a run ends with its
\* summary, every implicit or this-qualified call to another method the
\* caller's type declares has its CALLS edge whenever both Method nodes exist.
C4_NoSelfEdgeButSiblingEdge ==
    /\ \A e \in CallsEdges(graph) :
          e[1] # e[3] /\ KeyOf(graph, e[1]) # KeyOf(graph, e[3])
    /\ (an.pc = "done" /\ an.result = "summary")
       => \A ci \in 1..Len(an.all_classes) :
            LET cls == an.all_classes[ci]
            IN  \A mi \in 1..Len(cls.methods) :
                  \A ii \in 1..Len(cls.methods[mi].invocations) :
                    LET inv == cls.methods[mi].invocations[ii]
                        a == Match(graph, "Method", Dot(cls.full_name, cls.methods[mi].name))
                        b == Match(graph, "Method", Dot(cls.full_name, inv.name))
                    IN  (/\ inv.receiver \in {NoReceiver, "this"}
                         /\ inv.name # cls.methods[mi].name
                         /\ inv.name \in BuildClassMethods(an.all_classes)[cls.full_name])
                        => \A x \in a, y \in b : <<x, "CALLS", y>> \in DOMAIN graph.e

\* the run is over: go calls helper, go also calls go, and only the first
\* has an edge
C4_Witness ==
    /\ an.pc = "done" /\ an.result = "summary"
    /\ \E e \in CallsEdges(graph) :
          /\ KeyOf(graph, e[1]) = <<"p", "Caller", "go">>
          /\ KeyOf(graph, e[3]) = <<"p", "Caller", "helper">>

\* C5: every ordered pair of Method nodes is joined by at most one CALLS
\* relationship.
C5_CallsEdgeOnce ==
    \A e \in CallsEdges(graph) : graph.e[e] = 1

\* the run is over: helper is called at two sites of go and has one edge
C5_Witness ==
    /\ an.pc = "done" /\ an.result = "summary"
    /\ \E e \in CallsEdges(graph) :
          /\ KeyOf(graph, e[1]) = <<"p", "Caller", "go">>
          /\ KeyOf(graph, e[3]) = <<"p", "Caller", "helper">>
          /\ graph.e[e] = 1

\* C6: every Method node has exactly one incoming HAS_METHOD relationship,
\* and it comes from the Class node its full name names.
C6_MethodHasOneOwner ==
    \A x \in graph.n :
       x.label = "Method"
       => LET ins == {e \in DOMAIN graph.e : e[3] = x.id /\ e[2] = "HAS_METHOD"}
          IN  /\ Cardinality(ins) = 1
              /\ \A e \in ins :
                    /\ graph.e[e] = 1
                    /\ NodeOf(graph, e[1]).label = "Class"
                    /\ KeyOf(graph, e[1]) = SubSeq(x.key, 1, Len(x.key) - 1)

\* the stub X.foo and the declared Caller.go are both in the graph
C6_Witness ==
    /\ Match(graph, "Method", <<"p", "X", "foo">>) # {}
    /\ Match(graph, "Method", <<"p", "Caller", "go">>) # {}

\* C7: every architecture node has an outgoing IMPLEMENTED_BY relationship
\* to a metamodel node.
C7_ArchNodesImplemented ==
    \A x \in graph.n :
       x.label \in ArchLabels
       => \E e \in DOMAIN graph.e :
             /\ e[1] = x.id /\ e[2] = "IMPLEMENTED_BY"
             /\ NodeOf(graph, e[3]).label \in MetamodelLabels

\* the owner a search over the declared methods alone finds
DeclaredOwner(called_name, target_class) ==
    FindMethodOwner(called_name, target_class,
                    BuildClassMethods(an.all_classes), an.all_classes)

\* C8: when the resolver has settled an invocation whose target type does
\* not declare the called method while a type of its hierarchy does, the
\* owner is the first declaring type in breadth-first order and the target
\* type has no stub of that name.
C8_FirstDeclaringAncestor ==
    (/\ an.pc = "calls"
     /\ DeclaredOwner(an.pending.called, an.pending.target) # NoName
     /\ DeclaredOwner(an.pending.called, an.pending.target) # an.pending.target)
    => /\ an.pending.owner = DeclaredOwner(an.pending.called, an.pending.target)
       /\ Dot(an.pending.target, an.pending.called) \notin an.synthetic_created

\* C9: when the resolver has settled an invocation whose target type is a
\* type of the module and no type of its hierarchy declares the called
\* method, the owner is the target type and the graph holds exactly one
\* Method node for the stub.
C9_OneStubOnTarget ==
    (/\ an.pc = "calls"
     /\ an.pending.target \in DOMAIN BuildClassMethods(an.all_classes)
     /\ DeclaredOwner(an.pending.called, an.pending.target) = NoName)
    => /\ an.pending.owner = an.pending.target
       /\ Cardinality(Match(graph, "Method",
                            Dot(an.pending.target, an.pending.called))) = 1

\* C10: a run whose module path does not exist ends by raising and leaves
\* the graph as it was when the run started.
C10_MissingPathRaises ==
    (an.pc = "done" /\ ~an.pathOk)
    => /\ an.result = "raised"
       /\ graph = hist.pre


-----------------------------------------------------------------------------
(* C11: in one pipeline run the technology scan and every enricher run only   *)
(* after every module task of that run has finished, completed or failed: no  *)
(* module task of the run is ready, in its worker thread or waiting for its   *)
(* last turn while a scan or an enricher of the run is in its thread.         *)
C11_Phase2AfterJoin ==
    \A p \in Pipelines :
        sched.pipe[p].pc \in {"scanning", "enriching"} =>
            \A m \in Modules :
                /\ sched.pipe[p].task[m].pc = "done"
                /\ sched.pipe[p].status[m] \in {"COMPLETED", "FAILED"}

\* an enricher is running in a run whose module tasks ended one FAILED,
\* one COMPLETED
C11_Witness ==
    \E p \in Pipelines :
        /\ sched.pipe[p].pc = "enriching"
        /\ \E m \in Modules : sched.pipe[p].status[m] = "FAILED"
        /\ \E m \in Modules : sched.pipe[p].status[m] = "COMPLETED"

(* C12: Phase 0 of a run is over before any module task of that run starts,   *)
(* and no two runs are in Phase 0 at the same time.                           *)
C12_Phase0FirstAndAlone ==
    /\ \A p \in Pipelines :
          sched.pipe[p].pc \in {"absent", "scheduled", "phase0", "aborted"} =>
              \A m \in Modules : sched.pipe[p].task[m] = NoTask
    /\ \A p, q \in Pipelines :
          sched.pipe[p].pc = "phase0" /\ sched.pipe[q].pc = "phase0" => p = q

\* a second run is in the middle of Phase 0 while a module task of the first
\* run is in its worker thread
C12_Witness ==
    \E p, q \in Pipelines :
        /\ sched.pipe[q].pc = "phase0" /\ sched.pipe[q].step > 1
        /\ \E m \in Modules : sched.pipe[p].task[m].pc = "thread"

-----------------------------------------------------------------------------
(* C13: every graph write of a run is an idempotent upsert.                   *)

\* the store write that the next step of the analyzer or of the enricher
\* issues, applied to g; the reads the code made before the write are those
\* of the current state
IssuedWrite(g) ==
    CASE an.pc = "files" /\ an.todo # <<>> ->
           (LET op == Head(an.todo)
                cls == an.cur.classes[op[2]]
            IN  IF op[1] = "package"
                THEN CreatePackageNode(g, an.module, an.cur.package)
                ELSE IF op[1] = "class"
                THEN CreateClassNode(g, cls)
                ELSE CreateMethodNode(g, cls.full_name, cls.methods[op[3]]))
      [] an.pc = "resolve" /\ an.calls # <<>> /\ CurrentTarget # NoName
                           /\ CurrentSynthesis.writes ->
           CreateSyntheticMethod(g, CurrentTarget, CurrentInvocation.name)
      [] an.pc = "calls" /\ CurrentCalls.writes ->
           CallsStep(g, an.seen, an.pending.caller, an.pending.owner,
                     an.pending.called).g
      [] pipe.pc = "enrich" /\ pipe.todo # <<>> -> EnrichOp(g, Head(pipe.todo))
      [] OTHER -> g

(* C13: issuing the next Type, Method, stub, CALLS or architecture write a    *)
(* second time leaves the graph as the first issue left it: no second node or *)
(* edge with the same natural key.                                            *)
C13_WritesAreUpserts ==
    SameGraph(IssuedWrite(IssuedWrite(graph)), IssuedWrite(graph))

-----------------------------------------------------------------------------
\* natural keys of the architecture nodes implemented by a type or a method
\* of module m
ModuleArchKeys(g, m) ==
    LET mods == Match(g, "Module", ModuleKey(m))
    IN  {NatKey(NodeOf(g, i)) :
            i \in ArchImplementedBy(g, ClassesOf(g, mods) \cup MethodsOf(g, mods))}

(* C14: after a single-module re-run (start_job) on the same source, with no  *)
(* store failure in the whole behaviour, the architecture nodes derived from  *)
(* the module's types and methods that existed before the re-run exist again. *)
C14_RerunRestoresArchNodes ==
    \A m \in Modules :
        (/\ an.pc = "idle" /\ pipe.pc = "idle" /\ budget = MaxFailures
         /\ hist.last.what = m /\ hist.last.clean
         /\ hist.last.paths = {<<m, TRUE>>})
        => ModuleArchKeys(hist.pre, m) \subseteq ModuleArchKeys(graph, m)

-----------------------------------------------------------------------------
\* the files of the run's module whose parse did not raise
NonRaisingFiles == SeqToSet(WalkJavaFiles(an.module, an.pathOk)) \ an.raised

\* the types of file f are in the graph
TypesWritten(g, f) ==
    \A k \in 1..Len(ParseJavaFile(f).classes) :
        Match(g, "Class", ParseJavaFile(f).classes[k].full_name) # {}

(* C15: when run() ends in a behaviour without store failure, it returns a    *)
(* summary, its parse-error count is the number of files whose parse raised,  *)
(* and the types of every other file of the module are written.               *)
C15_RaisingFilesSkipped ==
    (an.pc = "done" /\ budget = MaxFailures) =>
        /\ an.result = "summary"
        /\ an.stats.parse_errors = Cardinality(an.raised)
        /\ \A f \in NonRaisingFiles : TypesWritten(graph, f)

-----------------------------------------------------------------------------
(* C16: when a Type write, a Method write or a CALLS edge write of a run has  *)
(* raised, the failure is counted in the run's parse errors (one per raising  *)
(* file and per failed write) and the run ends with its summary.              *)
C16_CoreWriteFailureRecorded ==
    (an.pc = "done" /\ an.failed \cap {"class", "method", "calls"} # {}) =>
        /\ an.result = "summary"
        /\ an.stats.parse_errors = Cardinality(an.raised) + Cardinality(an.failed)

-----------------------------------------------------------------------------
\* candidate c has its architecture node: a JMSListener implemented by the
\* method, a JMSProducer implemented by the class
HasArchNode(g, c) ==
    IF c[1] = "listener"
    THEN In(g, Match(g, "Method", c[2]), "IMPLEMENTED_BY")
            \cap MatchLabel(g, "JMSListener") # {}
    ELSE In(g, Match(g, "Class", c[2]), "IMPLEMENTED_BY")
            \cap MatchLabel(g, "JMSProducer") # {}

-----------------------------------------------------------------------------
(* C18: a module with a configured, non-empty technology list is never        *)
(* scanned, its Module node never gets detected_technologies written, and the *)
(* list handed to the enrichers is the configured one; when the detection     *)
(* loop is over, the scanned modules are exactly those without a list.        *)
C18_ConfiguredListShortCircuitsScan ==
    /\ \A m \in Modules :
          ConfiguredTechnologies(m) # <<>> =>
             /\ m \notin pipe.scanned
             /\ \A i \in Match(graph, "Module", ModuleKey(m)) :
                   NodeOf(graph, i).props.detected_technologies = <<>>
             /\ pipe.pc = "detect" =>
                   \A k \in 1..Len(pipe.enrichment_modules) :
                      pipe.enrichment_modules[k].module_name = m =>
                         pipe.enrichment_modules[k].technologies
                            = ConfiguredTechnologies(m)
    /\ (pipe.pc = "detect" /\ pipe.config = <<>>) =>
          pipe.scanned = {m \in Modules : ConfiguredTechnologies(m) = <<>>}

\* the detection loop is over: the configured module is listed for
\* enrichment with its configured list, the other module was scanned
C18_Witness ==
    /\ pipe.pc = "detect" /\ pipe.config = <<>>
    /\ \E k \in 1..Len(pipe.enrichment_modules) :
          /\ ConfiguredTechnologies(pipe.enrichment_modules[k].module_name) # <<>>
          /\ pipe.enrichment_modules[k].technologies
                = ConfiguredTechnologies(pipe.enrichment_modules[k].module_name)
    /\ pipe.scanned # {}

-----------------------------------------------------------------------------
\* s without its trailing slashes, and s without its leading slashes, said
\* without reference to the stripping code
BasePart(s) ==
    SubSeq(s, 1, CHOOSE n \in 0..Len(s) :
                    /\ n = 0 \/ s[n] # "/"
                    /\ \A i \in (n + 1)..Len(s) : s[i] = "/")

MethodPart(s) ==
    SubSeq(s, CHOOSE k \in 1..(Len(s) + 1) :
                 /\ k = Len(s) + 1 \/ s[k] # "/"
                 /\ \A i \in 1..(k - 1) : s[i] = "/",
           Len(s))

(* C19: _join_paths gives "/" for ("", ""), "/api" for ("/api", ""), "/users" *)
(* for ("", "/users") and "/api/users" for ("/api/", "users"); its result is  *)
(* never empty, and when both parts are present it is the base part, one      *)
(* slash, and the method part.                                                *)
C19_JoinPathsNormalizes ==
    call.pc \in {"web", "feign"} =>
        /\ call.result # <<>>
        /\ (call.base = <<>> /\ call.method_path = <<>>) => call.result = <<"/">>
        /\ (call.base = Api /\ call.method_path = <<>>) => call.result = Api
        /\ (call.base = <<>> /\ call.method_path = <<"/">> \o Users)
              => call.result = <<"/">> \o Users
        /\ (call.base = Api \o <<"/">> /\ call.method_path = Users)
              => call.result = Api \o <<"/">> \o Users
        /\ (BasePart(call.base) # <<>> /\ MethodPart(call.method_path) # <<>>)
              => call.result = BasePart(call.base) \o <<"/">>
                                  \o MethodPart(call.method_path)

\* a base ending in slashes joined with a method path starting with slashes
C19_Witness ==
    /\ call.pc = "web"
    /\ Len(call.base) > 1 /\ call.base[Len(call.base)] = "/"
    /\ Len(call.method_path) > 1 /\ Head(call.method_path) = "/"
    /\ BasePart(call.base) # <<>> /\ MethodPart(call.method_path) # <<>>
    /\ call.result = BasePart(call.base) \o <<"/">> \o MethodPart(call.method_path)

-----------------------------------------------------------------------------
\* the JMSDestination nodes named d
Destinations(g, d) == Match(g, "JMSDestination", DestKey(d))

\* every node of S has an edge of type t to a JMSDestination node named d
LinkedTo(g, S, t, d) ==
    \A i \in S : \E j \in Destinations(g, d) : <<i, t, j>> \in DOMAIN g.e

\* the producers of class c
ProducersOf(g, c) ==
    In(g, Match(g, "Class", c), "IMPLEMENTED_BY") \cap MatchLabel(g, "JMSProducer")

(* C20: there is never more than one JMSDestination node per destination      *)
(* name, and when a pipeline has completed in a behaviour without failure,    *)
(* every listener and every producer written for a candidate is linked to the *)
(* node of each destination it names.                                         *)
C20_OneDestinationPerName ==
    /\ \A x \in graph.n :
          x.label = "JMSDestination" => CountNodes(graph, NatKey(x)) = 1
    /\ (pipe.pc = "done" /\ pipe.result = "completed" /\ budget = MaxFailures) =>
          /\ \A i \in MatchLabel(graph, "JMSListener") :
                NodeOf(graph, i).key # DestKey("") =>
                   \E j \in Match(graph, "JMSDestination", NodeOf(graph, i).key) :
                      <<i, "LISTENS_ON", j>> \in DOMAIN graph.e
          /\ \A c \in pipe.candidates :
                c[1] = "producer" =>
                   \A k \in Match(graph, "Class", c[2]) :
                      \A d \in SendLiterals(NodeOf(graph, k).props.source) :
                         LinkedTo(graph, ProducersOf(graph, c[2]), "SENDS_TO", d)

\* enricher passes for two modules have named the same destination: two
\* listeners and a producer are linked to its one node
C20_Witness ==
    /\ pipe.pc = "done" /\ pipe.result = "completed" /\ budget = MaxFailures
    /\ \E d \in {"q1"} :
          /\ Cardinality(Destinations(graph, d)) = 1
          /\ Cardinality({i \in MatchLabel(graph, "JMSListener") :
                             \E j \in Destinations(graph, d) :
                                <<i, "LISTENS_ON", j>> \in DOMAIN graph.e}) >= 2
          /\ \E i \in MatchLabel(graph, "JMSProducer") :
                \E j \in Destinations(graph, d) :
                   <<i, "SENDS_TO", j>> \in DOMAIN graph.e

-----------------------------------------------------------------------------
(* C21: a receiver that is no explicit import's simple name, matches more     *)
(* than one type of the module by simple name, and is a field of the caller   *)
(* type with a resolved type gets that field type as target type.             *)
C21_AmbiguousNameFallsToField ==
    call.pc = "target" =>
        LET cls == call.all[1]
            r == call.inv.receiver
            field_type_map == FieldTypeMap(call.all, cls, Len(cls.fields))
        IN  (/\ r # NoReceiver
             /\ ~HasKey(BuildImportMap(cls.imports), r)
             /\ Len(ClassBySimple(call.all, r)) > 1
             /\ HasKey(field_type_map, r))
            => call.result = Lookup(field_type_map, r)

-----------------------------------------------------------------------------
\* the types extracted by the run in progress
ModuleTypes == {an.all_classes[k].full_name : k \in 1..Len(an.all_classes)}

\* the owning type of a method full name
OwnerName(method_full_name) == SubSeq(method_full_name, 1, Len(method_full_name) - 1)

(* C22: every step of the resolver that adds a CALLS edge adds it between     *)
(* methods of types extracted by the run, and every step that adds a stub     *)
(* adds it to such a type: an invocation whose target type is not one of the  *)
(* run's types gives no edge and no stub.                                     *)
C22_CallsStayInModule ==
    [][/\ \A e \in CallsEdges(graph') :
             (e \notin DOMAIN graph.e \/ graph'.e[e] > graph.e[e])
             => /\ OwnerName(KeyOf(graph', e[1])) \in ModuleTypes
                /\ OwnerName(KeyOf(graph', e[3])) \in ModuleTypes
       /\ an.pc = "resolve" =>
             \A x \in graph'.n \ graph.n : OwnerName(x.key) \in ModuleTypes
       /\ (an.pc = "calls" /\ an.pending.target \notin ModuleTypes) =>
             graph' = graph]_vars

\* the resolver has resolved an invocation to a type of another module whose
\* Class and Method nodes are in the graph, and has gone on without a write
C22_Witness ==
    /\ an.pc = "resolve" /\ an.calls = <<>> /\ an.all_classes # <<>>
    /\ an.module = "mb"
    /\ <<"p", "Caller">> \notin ModuleTypes
    /\ Match(graph, "Method", <<"p", "Caller", "go">>) # {}
    /\ Match(graph, "Method", <<"p", "Other", "onMsg">>) # {}

-----------------------------------------------------------------------------
(* Phase 1.5 and Phase 2: the order of the scanner and enricher calls *)

ModuleIndex(m) == CHOOSE k \in 1..Len(ModulesConfig) : ModulesConfig[k] = m

TechIndex(ps, c) ==
    CHOOSE k \in 1..Len(ps.techs[c[2]]) : ps.techs[c[2]][k] = c[3]

\* the call log of one run is ordered as the two loops of Phase 1.5 and
\* Phase 2 are
OrderedCalls(ps) ==
    \A i, j \in 1..Len(ps.log) :
        i < j =>
          LET a == ps.log[i]
              b == ps.log[j]
          IN  /\ ~(a[1] = "enrich" /\ b[1] = "scan")
              /\ a[1] = b[1] =>
                    \/ ModuleIndex(a[2]) < ModuleIndex(b[2])
                    \/ /\ a[2] = b[2] /\ a[1] = "enrich"
                       /\ TechIndex(ps, a) < TechIndex(ps, b)

\* a run that completes has called the scanner for every module without
\* configured technologies and every registered enricher of every module
AllCalled(ps) ==
    (ps.pc = "finished" /\ ps.status[EnrichmentJob] = "COMPLETED") =>
        SeqToSet(ps.log) =
           {ScanCall(m) : m \in {n \in Modules : ps.config[n] = <<>>}}
           \cup UNION {{EnrichCall(m, ps.techs[m][k]) :
                          k \in {i \in 1..Len(ps.techs[m]) :
                                   ps.techs[m][i] \in EnricherRegistry}} :
                        m \in Modules}

\* C23 (as amended): Phase 2 of a pipeline run is sequential and ordered: the
\* Technology Scanner runs for the modules without configured technologies
\* in module list order, then the enrichers run module by module in module
\* list order and, within a module, in the order of its technology list;
\* every scanner call of the run precedes every enricher call, and at most
\* one scanner or enricher call of the run executes at any time (it is the
\* call logged last).
C23_Phase2SequentialOrdered ==
    \A p \in Pipelines :
        LET ps == sched.pipe[p]
        IN  /\ OrderedCalls(ps)
            /\ AllCalled(ps)
            /\ Cardinality(ps.inflight) <= 1
            /\ ps.inflight # {} =>
                  /\ ps.pc \in {"scanning", "enriching"}
                  /\ ps.inflight = {ps.log[Len(ps.log)]}
            /\ ps.pc \in {"scanning", "enriching"} => ps.inflight # {}

\* two auto-detected modules with two technologies each: the fourth enricher
\* call of a run is executing after two scanner calls and three enricher calls
C23_Witness ==
    \E p \in Pipelines :
        /\ sched.pipe[p].pc = "enriching"
        /\ Len(sched.pipe[p].log) = 6
        /\ sched.pipe[p].inflight = {EnrichCall("mb", "spring-web")}

\* C23 (as stated): the calls of one module, scanner then enrichers, all
\* precede the calls of the next module of the list.
C23_ModuleByModule ==
    \A p \in Pipelines :
        \A i, j \in 1..Len(sched.pipe[p].log) :
            i < j => ModuleIndex(sched.pipe[p].log[i][2])
                       <= ModuleIndex(sched.pipe[p].log[j][2])

-----------------------------------------------------------------------------
(* _resolve_endpoint of the Spring Web and Feign enrichers.  An annotation    *)
(* argument that is a string or a list of strings is a record: list says      *)
(* which, vals holds the string or the elements; an absent argument, an       *)
(* empty string and None are [list |-> FALSE, vals |-> <<>>].                 *)

WebAnn(n) == <<"org", "springframework", "web", "bind", "annotation", n>>

RequestMappingFqn == WebAnn("RequestMapping")

\* _METHOD_ANNOTATIONS, in the order of the dict
MethodAnnotations ==
    << <<WebAnn("GetMapping"), "GET">>, <<WebAnn("PostMapping"), "POST">>,
       <<WebAnn("PutMapping"), "PUT">>, <<WebAnn("DeleteMapping"), "DELETE">>,
       <<WebAnn("PatchMapping"), "PATCH">> >>

\* feign_client._REQUEST_METHODS
FeignRequestMethods ==
    { <<"RequestMethod.GET", "GET">>, <<"RequestMethod.POST", "POST">>,
      <<"RequestMethod.PUT", "PUT">>, <<"RequestMethod.DELETE", "DELETE">>,
      <<"RequestMethod.PATCH", "PATCH">>,
      <<"GET", "GET">>, <<"POST", "POST">>, <<"PUT", "PUT">>,
      <<"DELETE", "DELETE">>, <<"PATCH", "PATCH">> }

\* spring_web._REQUEST_METHODS
RequestMethods ==
    FeignRequestMethods
    \cup { <<"RequestMethod.HEAD", "HEAD">>,
           <<"RequestMethod.OPTIONS", "OPTIONS">> }

Scalar(v) == [list |-> FALSE, vals |-> <<v>>]

Absent == [list |-> FALSE, vals |-> <<>>]

Listed(vs) == [list |-> TRUE, vals |-> vs]

\* the method arguments drawn as input
MethodArgs ==
    { Absent, Scalar("RequestMethod.POST"), Scalar("DELETE"),
      Scalar("RequestMethod.HEAD"), Scalar("TRACE"), Listed(<<>>),
      Listed(<<"RequestMethod.PUT", "RequestMethod.GET">>) }

\* the annotations drawn as input: mapping annotations and one that is none
EndpointAnnotations ==
    { [name |-> n, method |-> m, value |-> p[1], path |-> p[2]] :
        n \in { WebAnn("GetMapping"), WebAnn("PostMapping"),
                WebAnn("DeleteMapping"), RequestMappingFqn, JmsListenerFqn },
        m \in MethodArgs,
        p \in { <<Users, <<>>>>, <<<<>>, <<"a">>>> } }

\* longest annotation list drawn as input
MaxAnnotations == 2

AnnotationLists ==
    UNION {[1..n -> EndpointAnnotations] : n \in 0..MaxAnnotations}

NoEndpoint == [found |-> FALSE, path |-> <<>>, http_method |-> ""]

\* base.get_annotation with one name: the first annotation of that name
RECURSIVE GetAnnotation(_, _)
GetAnnotation(annotations, fqn) ==
    IF annotations = <<>> THEN <<>>
    ELSE IF Head(annotations).name = fqn THEN <<Head(annotations)>>
    ELSE GetAnnotation(Tail(annotations), fqn)

\* _get_path: args.get("value") or args.get("path") or ""
GetPath(ann) == IF ann.value # <<>> THEN ann.value ELSE ann.path

\* the entry of a _REQUEST_METHODS table for the method argument: a list
\* stands for its first element; "" when there is none
RequestMethod(ann, table) ==
    IF ann.method.vals = <<>> THEN ""
    ELSE LET method_val == ann.method.vals[1]
         IN  IF \E e \in table : e[1] = method_val
             THEN (CHOOSE e \in table : e[1] = method_val)[2]
             ELSE ""

\* spring_web._resolve_http_method; None is ""
ResolveHttpMethod(ann) == RequestMethod(ann, RequestMethods)

\* the loop over _METHOD_ANNOTATIONS from its k-th entry on
RECURSIVE SpecificEndpoint(_, _, _)
SpecificEndpoint(annotations, base_path, k) ==
    IF k > Len(MethodAnnotations) THEN NoEndpoint
    ELSE LET ann == GetAnnotation(annotations, MethodAnnotations[k][1])
         IN  IF ann # <<>>
             THEN [found |-> TRUE,
                   path |-> JoinPaths(base_path, GetPath(ann[1])),
                   http_method |-> MethodAnnotations[k][2]]
             ELSE SpecificEndpoint(annotations, base_path, k + 1)

ResolveEndpointGenericFirst(annotations, base_path) ==
    LET ann == GetAnnotation(annotations, RequestMappingFqn)
    IN  IF ann # <<>>
        THEN [found |-> TRUE,
              path |-> JoinPaths(base_path, GetPath(ann[1])),
              http_method |-> IF ResolveHttpMethod(ann[1]) # ""
                              THEN ResolveHttpMethod(ann[1]) ELSE "GET"]
        ELSE SpecificEndpoint(annotations, base_path, 1)

\* SpringWebEnricher._resolve_endpoint (without the media types)
ResolveEndpoint(annotations, base_path) ==
    LET specific == SpecificEndpoint(annotations, base_path, 1)
        ann == GetAnnotation(annotations, RequestMappingFqn)
    IN  IF specific.found THEN specific
        ELSE IF ann # <<>>
        THEN [found |-> TRUE,
              path |-> JoinPaths(base_path, GetPath(ann[1])),
              http_method |-> IF ResolveHttpMethod(ann[1]) # ""
                              THEN ResolveHttpMethod(ann[1]) ELSE "GET"]
        ELSE NoEndpoint

\* the loop over _METHOD_ANNOTATIONS of the Feign enricher
RECURSIVE FeignSpecificEndpoint(_, _, _)
FeignSpecificEndpoint(annotations, base_path, k) ==
    IF k > Len(MethodAnnotations) THEN NoEndpoint
    ELSE LET ann == GetAnnotation(annotations, MethodAnnotations[k][1])
         IN  IF ann # <<>>
             THEN [found |-> TRUE,
                   path |-> FeignJoinPaths(base_path, GetPath(ann[1])),
                   http_method |-> MethodAnnotations[k][2]]
             ELSE FeignSpecificEndpoint(annotations, base_path, k + 1)

\* FeignClientEnricher._resolve_endpoint
FeignResolveEndpoint(annotations, base_path) ==
    LET specific == FeignSpecificEndpoint(annotations, base_path, 1)
        ann == GetAnnotation(annotations, RequestMappingFqn)
    IN  IF specific.found THEN specific
        ELSE IF ann # <<>>
        THEN [found |-> TRUE,
              path |-> FeignJoinPaths(base_path, GetPath(ann[1])),
              http_method |-> IF RequestMethod(ann[1], FeignRequestMethods) # ""
                              THEN RequestMethod(ann[1], FeignRequestMethods)
                              ELSE "GET"]
        ELSE NoEndpoint

\* the Spring Web enricher resolves the endpoint of a controller method
SpringWebResolve ==
    /\ call.pc = "input"
    /\ call' = [call EXCEPT
                  !.pc = "web",
                  !.result = ResolveEndpoint(call.annotations, call.base_path)]
    /\ UNCHANGED <<graph, an, pipe, budget, hist, sched>>

\* the Feign enricher resolves the endpoint of a client method
FeignResolve ==
    /\ call.pc = "input"
    /\ call' = [call EXCEPT
                  !.pc = "feign",
                  !.result = FeignResolveEndpoint(call.annotations,
                                                  call.base_path)]
    /\ UNCHANGED <<graph, an, pipe, budget, hist, sched>>

InitEndpoint ==
    /\ graph = EmptyGraph
    /\ an = IdleAnalyzer
    /\ pipe = IdlePipe
    /\ budget = 0
    /\ hist = [events |-> 0, pre |-> EmptyGraph, last |-> NoLast]
    /\ sched = Unused
    /\ call \in [pc : {"input"}, annotations : AnnotationLists,
                 base_path : {Api}, result : {NoEndpoint}]

NextEndpoint == SpringWebResolve \/ FeignResolve

SpecEndpoint == InitEndpoint /\ [][NextEndpoint]_vars

\* the names of the verb-specific mapping annotations and their verbs
VerbOfAnnotation ==
    { <<WebAnn("GetMapping"), "GET">>, <<WebAnn("PostMapping"), "POST">>,
      <<WebAnn("PutMapping"), "PUT">>, <<WebAnn("DeleteMapping"), "DELETE">>,
      <<WebAnn("PatchMapping"), "PATCH">> }

NamesIn(annotations) == {annotations[k].name : k \in 1..Len(annotations)}

SpecificVerbs(annotations) ==
    {e[2] : e \in {f \in VerbOfAnnotation : f[1] \in NamesIn(annotations)}}

\* the first generic mapping annotation of a list that has one
FirstGeneric(annotations) ==
    annotations[CHOOSE k \in 1..Len(annotations) :
                   /\ annotations[k].name = RequestMappingFqn
                   /\ \A i \in 1..(k - 1) :
                         annotations[i].name # RequestMappingFqn]

\* the verb a method argument names for an enricher, "" when it names none:
\* both enrichers know the five verbs bare or as RequestMethod.X, the Spring
\* Web enricher also RequestMethod.HEAD and RequestMethod.OPTIONS
NamedVerb(method, enricher) ==
    IF method.vals = <<>> THEN ""
    ELSE CASE method.vals[1] \in {"GET", "RequestMethod.GET"} -> "GET"
           [] method.vals[1] \in {"POST", "RequestMethod.POST"} -> "POST"
           [] method.vals[1] \in {"PUT", "RequestMethod.PUT"} -> "PUT"
           [] method.vals[1] \in {"DELETE", "RequestMethod.DELETE"} -> "DELETE"
           [] method.vals[1] \in {"PATCH", "RequestMethod.PATCH"} -> "PATCH"
           [] method.vals[1] = "RequestMethod.HEAD" /\ enricher = "web" -> "HEAD"
           [] method.vals[1] = "RequestMethod.OPTIONS" /\ enricher = "web"
                -> "OPTIONS"
           [] OTHER -> ""

\* C24: endpoint resolution checks the verb-specific mapping annotations
\* first: when the list has one, an endpoint with the verb of a verb-specific
\* annotation of the list is produced, also when a generic RequestMapping is
\* present; otherwise the first RequestMapping of the list gives the
\* endpoint, with the verb its method argument names when that is recognised
\* and GET otherwise; with no mapping annotation no endpoint is produced.
C24_EndpointResolutionOrder ==
    call.pc \in {"web", "feign"} =>
        IF SpecificVerbs(call.annotations) # {}
        THEN /\ call.result.found
             /\ call.result.http_method \in SpecificVerbs(call.annotations)
             /\ Cardinality(SpecificVerbs(call.annotations)) = 1 =>
                   call.result.http_method
                      = CHOOSE v \in SpecificVerbs(call.annotations) : TRUE
        ELSE IF RequestMappingFqn \in NamesIn(call.annotations)
        THEN /\ call.result.found
             /\ call.result.http_method =
                   IF NamedVerb(FirstGeneric(call.annotations).method,
                                call.pc) # ""
                   THEN NamedVerb(FirstGeneric(call.annotations).method,
                                  call.pc)
                   ELSE "GET"
        ELSE call.result = NoEndpoint

\* a verb-specific annotation after a generic one that names another verb
C24_Witness ==
    /\ call.pc = "web"
    /\ Len(call.annotations) = 2
    /\ call.annotations[1].name = RequestMappingFqn
    /\ call.annotations[1].method = Scalar("RequestMethod.POST")
    /\ call.annotations[2].name = WebAnn("DeleteMapping")
    /\ call.result.http_method = "DELETE"

-----------------------------------------------------------------------------
(* _resolve_annotation_fqns applied to drawn annotation lists, imports, star  *)
(* imports and packages                                                       *)

AnnotationNames == {"Ann", "Other", StarImportsKey}

DrawnAnnotations ==
    [name : AnnotationNames, arguments : {<<>>, << <<"value", "v">> >>}]

DrawnImports ==
    { <<>>, << <<"x", "Ann">> >>, << <<"x", "Ann">>, <<"y", "Ann">> >>,
      << <<"x", StarImportsKey>> >> }

DrawnStarImports == { <<>>, << <<"s">> >>, << <<"s">>, <<"t">> >> }

DrawnPackages == { NoName, <<"p">> }

\* _extract_classes resolves the annotations of a type or of a method
ResolveAnnotations ==
    /\ call.pc = "input"
    /\ call' = [call EXCEPT
                  !.pc = "resolved",
                  !.result = ResolveAnnotationFqns(call.annotations, call.imports,
                                call.star_imports, call.package)]
    /\ UNCHANGED <<graph, an, pipe, budget, hist, sched>>

InitAnnotations ==
    /\ graph = EmptyGraph
    /\ an = IdleAnalyzer
    /\ pipe = IdlePipe
    /\ budget = 0
    /\ hist = [events |-> 0, pre |-> EmptyGraph, last |-> NoLast]
    /\ sched = Unused
    /\ call \in [pc : {"input"},
                 annotations : UNION {[1..n -> DrawnAnnotations] :
                                         n \in 0..MaxAnnotations},
                 imports : DrawnImports, star_imports : DrawnStarImports,
                 package : DrawnPackages, result : {<<>>}]

NextAnnotations == ResolveAnnotations

SpecAnnotations == InitAnnotations /\ [][NextAnnotations]_vars

\* the explicit imports of a simple name
ImportsOf(imports, n) ==
    {imports[k] : k \in {i \in 1..Len(imports) : SimpleOf(imports[i]) = n}}

\* the name the documented order gives an annotation
DocumentedNames(n, imports, star_imports, package) ==
    IF ImportsOf(imports, n) # {} THEN ImportsOf(imports, n)
    ELSE IF star_imports # <<>> THEN {Dot(star_imports[1], n)}
    ELSE IF package # NoName THEN {Dot(package, n)}
    ELSE {<<n>>}

\* C25: an annotation name resolves to an explicit import of the simple
\* name, else to the first star import with the name appended, else to the
\* file's package with the name appended, else it is kept unchanged; the
\* result has as many annotations as the input, with their arguments.
C25_AnnotationResolutionOrder ==
    call.pc = "resolved" =>
        /\ Len(call.result) = Len(call.annotations)
        /\ \A k \in 1..Len(call.annotations) :
              /\ call.result[k].arguments = call.annotations[k].arguments
              /\ call.result[k].name \in
                    DocumentedNames(call.annotations[k].name, call.imports,
                                    call.star_imports, call.package)

-----------------------------------------------------------------------------
(* Job statuses *)

Terminal == {"COMPLETED", "FAILED"}

\* C26: a job's status only moves PENDING -> RUNNING -> COMPLETED or FAILED;
\* once it is COMPLETED or FAILED it never changes again.
C26_StatusMonotone ==
    [][\A p \in Pipelines : \A j \in JobNames :
          LET old == sched.pipe[p].status[j]
              new == sched'.pipe[p].status[j]
          IN  old # new =>
                 \/ old = "NONE" /\ new = "PENDING"
                 \/ old = "PENDING" /\ new = "RUNNING"
                 \/ old = "RUNNING" /\ new \in Terminal]_vars

\* C27: every job that start_repo creates eventually is COMPLETED or FAILED.
C27_JobsTerminate ==
    \A p \in Pipelines : \A j \in JobNames :
        (sched.pipe[p].status[j] = "PENDING")
            ~> (sched.pipe[p].status[j] \in Terminal)

\* a module analysis or a scanner or enricher call of a run is in its worker
\* thread
WorkerRunning(ps) ==
    \/ \E m \in Modules : ps.task[m].pc = "thread"
    \/ ps.pc \in {"scanning", "enriching"}

\* C28: no Phase 0 cleanup of one pipeline executes while a module analysis
\* task or an enricher of another pipeline on the same repository is still
\* running.
C28_CleanupNeverOverlapsOtherRun ==
    \A p, q \in Pipelines :
        (p # q /\ sched.pipe[q].pc = "phase0") => ~WorkerRunning(sched.pipe[p])

-----------------------------------------------------------------------------
(* _create_calls_relationships applied to one set of extracted types in       *)
(* every order of the types, of the caller's methods and of their invocations *)

\* the orders of a sequence
Orders(s) == {[i \in 1..Len(s) |-> s[f[i]]] : f \in Permutations(1..Len(s))}

\* p.X extends a type outside the module, p.Sub extends X, neither declares a
\* method; p.Caller calls foo, bar and baz on fields of both types
GoInvocations == <<Inv("foo", "x"), Inv("foo", "s"), Inv("baz", "s")>>

HelperInvocations == <<Inv("bar", "s"), Inv("bar", "x")>>

OrderedTypes(go, helper, caller_methods_swapped) ==
    << Type("X", <<"Ext">>, <<>>, <<>>, <<>>),
       Type("Sub", <<"X">>, <<>>, <<>>, <<>>),
       Type("Caller", <<>>, << <<"x", "X">>, <<"s", "Sub">> >>,
            IF caller_methods_swapped
            THEN <<Meth("helper", helper, <<>>), Meth("go", go, <<>>)>>
            ELSE <<Meth("go", go, <<>>), Meth("helper", helper, <<>>)>>,
            <<>>) >>

\* the class lists run() can hand to the resolver for these types
DrawnClassLists ==
    UNION { Orders(ParseJavaFile(File(<<"p">>, <<>>,
                                      OrderedTypes(go, helper, sw))).classes) :
              go \in Orders(GoInvocations),
              helper \in Orders(HelperInvocations),
              sw \in BOOLEAN }

\* the metamodel of the module as run() has written it before the resolver
RECURSIVE StoreMethods(_, _, _)
StoreMethods(g, cls, k) ==
    IF k = 0 THEN g
    ELSE CreateMethodNode(StoreMethods(g, cls, k - 1), cls.full_name,
                          cls.methods[k])

RECURSIVE StoreClasses(_, _, _)
StoreClasses(g, all, k) ==
    IF k = 0 THEN g
    ELSE LET g1 == StoreClasses(g, all, k - 1)
         IN  StoreMethods(CreateClassNode(g1, all[k]), all[k],
                          Len(all[k].methods))

StoredModule(all) ==
    StoreClasses(CreatePackageNode(CreateModuleNode(EmptyGraph, "ma"), "ma",
                                   <<"p">>),
                 all, Len(all))

\* the loop over classes, methods and invocations
RECURSIVE ResolveFrom(_, _, _)
ResolveFrom(all, calls, st) ==
    IF calls = <<>> THEN st
    ELSE LET cls == all[Head(calls)[1]]
             method == cls.methods[Head(calls)[2]]
             inv == method.invocations[Head(calls)[3]]
             target_class == TargetClass(all, cls, inv)
             syn == SynthesizeStep(st.g, st.class_methods, st.synthetic_created,
                                   all, target_class, inv.name)
             edge == CallsStep(syn.g, st.seen, Dot(cls.full_name, method.name),
                               syn.owner, inv.name)
         IN  IF target_class = NoName THEN ResolveFrom(all, Tail(calls), st)
             ELSE ResolveFrom(all, Tail(calls),
                     [g |-> edge.g, class_methods |-> syn.class_methods,
                      synthetic_created |-> syn.synthetic_created,
                      seen |-> edge.seen, count |-> st.count + edge.n])

CreateCallsRelationships(g, all) ==
    ResolveFrom(all, InvocationsFrom(all, 1, 1, 1),
                [g |-> g, class_methods |-> BuildClassMethods(all),
                 synthetic_created |-> {}, seen |-> {}, count |-> 0])

\* run() after the files are written: the resolver pass over all_classes
ResolveModule ==
    /\ call.pc = "input"
    /\ call' = [call EXCEPT
                  !.pc = "resolved",
                  !.g = CreateCallsRelationships(StoredModule(call.all),
                                                 call.all).g]
    /\ UNCHANGED <<graph, an, pipe, budget, hist, sched>>

InitOrder ==
    /\ graph = EmptyGraph
    /\ an = IdleAnalyzer
    /\ pipe = IdlePipe
    /\ budget = 0
    /\ hist = [events |-> 0, pre |-> EmptyGraph, last |-> NoLast]
    /\ sched = Unused
    /\ call \in [pc : {"input"}, all : DrawnClassLists, g : {EmptyGraph}]

NextOrder == ResolveModule

SpecOrder == InitOrder /\ [][NextOrder]_vars

\* the methods of the graph that no type declares
StubMethods(g, all) ==
    {k \in {x.key : x \in {y \in g.n : y.label = "Method"}} :
        \A i \in 1..Len(all) :
            \A j \in 1..Len(all[i].methods) :
                k # Dot(all[i].full_name, all[i].methods[j].name)}

\* the CALLS edges of the graph, by the names of their end points
CallsByName(g) == {<<KeyOf(g, e[1]), KeyOf(g, e[3])>> : e \in CallsEdges(g)}

\* the types in the order they are declared, go before helper
DeclaredOrder ==
    ParseJavaFile(File(<<"p">>, <<>>,
                       OrderedTypes(GoInvocations, HelperInvocations,
                                    FALSE))).classes

\* C29: the resolver's output does not depend on processing order: every
\* order of the types, of their methods and of their invocations gives the
\* stub methods and the CALLS edges that the declared order gives.
C29_OrderIndependent ==
    call.pc = "resolved" =>
        LET ref == CreateCallsRelationships(StoredModule(DeclaredOrder),
                                            DeclaredOrder).g
        IN  /\ StubMethods(call.g, call.all) = StubMethods(ref, DeclaredOrder)
            /\ CallsByName(call.g) = CallsByName(ref)

-----------------------------------------------------------------------------
(* _find_method_owner, one iteration of its while loop per step, applied to   *)
(* drawn class_methods and class_hierarchy maps                               *)

\* longest parent list of a type in a drawn hierarchy map
MaxParents == 2

\* the types of the module, and a parent that is none of them
OwnerTypes == {"A", "B"}

Outside == "Ext"

CalledName == "m"

ParentLists ==
    UNION {[1..n -> OwnerTypes \cup {Outside}] : n \in 0..MaxParents}

AlreadyVisitedNever(current, visited) == FALSE

\* if current in visited: continue
AlreadyVisited(current, visited) == current \in visited

\* class_hierarchy.get(current, [])
ParentsOf(class_hierarchy, current) ==
    IF current \in DOMAIN class_hierarchy THEN class_hierarchy[current]
    ELSE <<>>

\* current in class_methods and called_name in class_methods[current]
Declares(class_methods, current, called_name) ==
    /\ current \in DOMAIN class_methods
    /\ called_name \in class_methods[current]

\* one iteration of the while loop
OwnerLoop ==
    /\ call.pc = "loop" /\ call.queue # <<>>
    /\ LET current == Head(call.queue)
       IN  call' =
             IF AlreadyVisited(current, call.visited)
             THEN [call EXCEPT !.queue = Tail(@)]
             ELSE IF Declares(call.class_methods, current, CalledName)
             THEN [call EXCEPT !.queue = Tail(@),
                               !.visited = @ \cup {current},
                               !.visits = Append(@, current),
                               !.pc = "returned", !.result = <<current>>]
             ELSE [call EXCEPT !.queue = Tail(@) \o ParentsOf(call.class_hierarchy,
                                                             current),
                               !.visited = @ \cup {current},
                               !.visits = Append(@, current)]
    /\ UNCHANGED <<graph, an, pipe, budget, hist, sched>>

\* the queue is empty: return None
OwnerNone ==
    /\ call.pc = "loop" /\ call.queue = <<>>
    /\ call' = [call EXCEPT !.pc = "returned", !.result = NoName]
    /\ UNCHANGED <<graph, an, pipe, budget, hist, sched>>

InitOwner ==
    /\ graph = EmptyGraph
    /\ an = IdleAnalyzer
    /\ pipe = IdlePipe
    /\ budget = 0
    /\ hist = [events |-> 0, pre |-> EmptyGraph, last |-> NoLast]
    /\ sched = Unused
    /\ \E target_class \in OwnerTypes \cup {Outside} :
          call \in [pc : {"loop"}, target : {target_class},
                    class_methods : [OwnerTypes -> SUBSET {CalledName}],
                    class_hierarchy : [OwnerTypes -> ParentLists],
                    queue : {<<target_class>>}, visited : {{}},
                    visits : {<<>>}, result : {NoName}]

NextOwner == OwnerLoop \/ OwnerNone

SpecOwner == InitOwner /\ [][NextOwner]_vars

\* the function runs on: a called function is not suspended forever
SpecOwnerFair == SpecOwner /\ WF_vars(NextOwner)

\* each type is visited at most once, and a return value is the type visited
\* last, which declares the method, or None after every type that can be
\* reached from the target class was visited and none declares the method
OwnerSearchSound ==
    /\ \A i, j \in 1..Len(call.visits) :
          call.visits[i] = call.visits[j] => i = j
    /\ call.pc = "returned" =>
          IF call.result = NoName
          THEN /\ call.target \in call.visited
               /\ \A t \in call.visited :
                     /\ ~Declares(call.class_methods, t, CalledName)
                     /\ SeqToSet(ParentsOf(call.class_hierarchy, t))
                           \subseteq call.visited
          ELSE /\ call.result = <<call.visits[Len(call.visits)]>>
               /\ Declares(call.class_methods, call.result[1], CalledName)

\* C30: _find_method_owner terminates for every hierarchy map, also one with
\* cycles or with parents that are not types of the module; it visits each
\* type at most once and returns None when no visited type declares the
\* method.
C30_OwnerSearchTerminates ==
    /\ []OwnerSearchSound
    /\ <>(call.pc = "returned")

\* None is returned for a cycle A -> B -> A with a parent outside the module
C30_Witness ==
    /\ call.pc = "returned" /\ call.result = NoName
    /\ call.class_hierarchy["A"] = <<"B", Outside>>
    /\ call.class_hierarchy["B"] = <<"A", "A">>
    /\ call.visits = <<"A", "B", Outside>>

====
